---- MODULE Spec2Model ----
(***************************************************************************)
(* Cipherlink end-to-end encrypted messaging: the relay's replay gate and  *)
(* message ingest path (server/middleware/replayProtection.js,             *)
(* server/routes/messages.js, server/models/Message.js), the relay's       *)
(* key-exchange endpoints (server/routes/keyExchange.js) and the client's  *)
(* handshake resolution and send path (Chat.tsx establishSession /         *)
(* handleSendMessage, crypto/keyExchange.ts, crypto/messageEncryption.ts). *)
(*                                                                         *)
(* Time is counted in minutes: the relay clock `now` advances by Tick, the *)
(* 60 s sweep timer fires once per tick.  Node.js runs one handler at a    *)
(* time between two awaits, so every action below is the code between two  *)
(* suspension points of one handler.                                       *)
(***************************************************************************)
EXTENDS Integers, Sequences, FiniteSets, TLC

\* ----- bounds of the model ------------------------------------------------
NumNonces == 2
MaxSeq == 2
MaxTicks == 1
NumHandlers == 2
MaxExchanges == 2
MaxKeys == 5
MaxClock == 8
MaxCalls == 3
MaxLen == 3
MaxFileSize == 17
NumPasswords == 3

\* ----- program constants (minutes) ----------------------------------------
MAX_NONCE_AGE == 5
FUTURE_SKEW == 1
\* the client's key stores count time in units of ten minutes
ONE_HOUR == 6
TEN_MINUTES == 1
\* the relay's exchange lifetime, in minutes
EXCHANGE_EXPIRY == 5
\* the file codec counts bytes in units of 128 KiB: a chunk is 1 MiB
CHUNK_SIZE == 8
\* the relay is watched until an exchange made at the start has outlived its time
MaxMinutes == EXCHANGE_EXPIRY + 1
StartTime == 7
MaxTime == StartTime + MaxTicks

\* ----- values --------------------------------------------------------------
Peers == {"A", "B"}
NoId == ""
NoNonce == 0
NoTimestamp == 0
Undefined == -1
Nonces == 1..NumNonces
Handlers == 1..NumHandlers
TsOffsets == {-6, -5, 1, 2}
GateOffsets == {-6, 1, 2}

VARIABLES now, sweepDue, nonceCache, sequenceTracking, messages,
          handlers, lastResp, lastGate, everAccepted, acceptedSeq,
          pendingExchanges, removed, nextExchange, nextKey,
          sessionKeys, ecdhKeyPairs, client, sequenceCounters,
          clientClock, memorySession, persistentSession, memoryPair,
          persistentPair, pairTimers, obtained, emitted, inFlight, trial, verdict, wire

gateVars == <<now, sweepDue, nonceCache, sequenceTracking, messages,
              handlers, lastResp, lastGate, everAccepted, acceptedSeq>>
kxVars == <<pendingExchanges, removed, nextExchange, nextKey,
           sessionKeys, ecdhKeyPairs, client>>
storageVars == <<clientClock, memorySession, persistentSession, memoryPair,
                 persistentPair, pairTimers, obtained>>
codecVars == <<emitted, inFlight, trial, verdict, wire>>
clientVars == <<sequenceCounters, storageVars, codecVars>>
vars == <<gateVars, kxVars, clientVars>>

NoEntry == [timestamp |-> 0, acceptedAt |-> 0]
NoReq == [senderId |-> NoId, recipientId |-> NoId, nonce |-> NoNonce,
          timestamp |-> NoTimestamp, sequenceNumber |-> Undefined,
          complete |-> FALSE]
IdleHandler == [pc |-> "idle", req |-> NoReq, now0 |-> 0, lastRead |-> 0,
                overlap |-> FALSE, replay |-> FALSE, cached |-> FALSE,
                rewind |-> FALSE]
\* the last answer given and the last decision of the gate, with what was
\* true of the request when it arrived
NoResp == [status |-> 0, error |-> "none", replay |-> FALSE, cached |-> FALSE,
           tooOld |-> FALSE, rewind |-> FALSE, overlap |-> FALSE,
           stored |-> FALSE, stale |-> FALSE]
NoGate == [decided |-> FALSE, pass |-> FALSE, fields |-> FALSE,
           inWindow |-> FALSE, nonceSeen |-> FALSE, seqAbove |-> FALSE,
           overlap |-> FALSE, cached |-> FALSE, tracked |-> FALSE, audit |-> {},
           timeDiff |-> 0]

\* the event loop takes the next callback once the running one has returned
Quiet == lastResp = NoResp /\ lastGate = NoGate

\* the bodies POST /messages/send can carry
\* well-formed bodies: every field present, stamped t+d for d in offsets
FullRequests(t, offsets) ==
  { req \in
      [senderId : Peers, recipientId : Peers, nonce : Nonces,
       timestamp : {t + d : d \in offsets},
       sequenceNumber : 1..MaxSeq, complete : {TRUE}] :
      req.recipientId # req.senderId }

\* bodies with one field left out
BaseRequest(t) ==
  [senderId |-> "A", recipientId |-> "B", nonce |-> 1,
   timestamp |-> t + FUTURE_SKEW, sequenceNumber |-> 1, complete |-> TRUE]
GateDefective(t) ==
  { [BaseRequest(t) EXCEPT !.nonce = NoNonce],
    [BaseRequest(t) EXCEPT !.timestamp = NoTimestamp],
    [BaseRequest(t) EXCEPT !.sequenceNumber = Undefined] }
    \cup { [BaseRequest(t) EXCEPT !.recipientId = NoId, !.nonce = n] : n \in Nonces }
RouteDefective(t) ==
  { [BaseRequest(t) EXCEPT !.complete = FALSE, !.nonce = n, !.sequenceNumber = q] :
      n \in Nonces, q \in 1..MaxSeq }

Max(S) == IF S = {} THEN 0 ELSE CHOOSE x \in S : \A y \in S : y <= x

\* `${senderId}-${recipientId}`
conversationKey(s, r) == <<s, r>>

\* Message.findOne({$or:[{senderId,recipientId},{senderId:recipientId,recipientId:senderId}]})
\*        .sort({sequenceNumber:-1}): the highest stored sequence, 0 when none
findLastSequence(s, r) ==
  Max({ m.sequenceNumber : m \in
        { d \in messages :
            \/ d.senderId = s /\ d.recipientId = r
            \/ d.senderId = r /\ d.recipientId = s } })

\* ----- the replay gate: middleware/replayProtection.js ---------------------

\* line 103: !nonce || !timestamp || sequenceNumber === undefined
FieldsMissing(req) ==
  req.nonce = NoNonce \/ req.timestamp = NoTimestamp \/ req.sequenceNumber = Undefined

\* a timestamp layer that lets stale timestamps through
TimestampLayerLax(req, t) ==
  IF t - req.timestamp < -FUTURE_SKEW THEN "message_from_future" ELSE "ok"

\* a timestamp layer that turns away the oldest permitted timestamp
TimestampLayerInclusive(req, t) ==
  LET timeDiff == t - req.timestamp IN
  IF timeDiff < -FUTURE_SKEW THEN "message_from_future"
  ELSE IF timeDiff >= MAX_NONCE_AGE THEN "message_too_old"
  ELSE "ok"

\* a timestamp layer without the future-skew test
TimestampLayerNoSkew(req, t) ==
  IF t - req.timestamp > MAX_NONCE_AGE THEN "message_too_old" ELSE "ok"

\* lines 118-152: timeDiff = now - timestamp against the two limits
TimestampLayer(req, t) ==
  LET timeDiff == t - req.timestamp IN
  IF timeDiff < -FUTURE_SKEW THEN "message_from_future"
  ELSE IF timeDiff > MAX_NONCE_AGE THEN "message_too_old"
  ELSE "ok"

\* Message.js lines 82-88: the schema's timestamp validator, run by save()
TimestampValid(req, t) ==
  LET diff == t - req.timestamp IN diff >= -FUTURE_SKEW /\ diff <= MAX_NONCE_AGE

\* messages.js lines 15-31: the route's synchronous part up to message.save()
RouteOutcome(req, t) ==
  IF req.recipientId = NoId \/ ~req.complete THEN "missing_required"
  ELSE IF ~TimestampValid(req, t) \/ req.sequenceNumber < 1 THEN "validation"
  ELSE "save"

Conv(req) == {req.senderId, req.recipientId}
Convs == { {a, b} : a \in Peers, b \in Peers }

Answer(hr, status, error) ==
  [status |-> status, error |-> error, replay |-> hr.replay,
   cached |-> hr.cached, rewind |-> hr.rewind,
   tooOld |-> hr.req.timestamp # NoTimestamp
              /\ hr.now0 - hr.req.timestamp > MAX_NONCE_AGE,
   overlap |-> hr.overlap,
   stored |-> \E m \in messages : m.nonce = hr.req.nonce,
   stale |-> hr.lastRead > 0 /\ hr.req.sequenceNumber <= hr.lastRead]

GateRecord(hr, pass) ==
  [decided |-> TRUE, pass |-> pass,
   fields |-> ~FieldsMissing(hr.req),
   inWindow |-> /\ hr.req.timestamp >= hr.now0 - MAX_NONCE_AGE
                /\ hr.req.timestamp <= hr.now0 + FUTURE_SKEW,
   nonceSeen |-> hr.req.nonce \in everAccepted,
   seqAbove |-> \/ hr.req.recipientId = NoId
                \/ hr.req.sequenceNumber > acceptedSeq[Conv(hr.req)],
   overlap |-> hr.overlap,
   cached |-> hr.cached,
   tracked |-> sequenceTracking' # sequenceTracking,
   audit |-> {},
   timeDiff |-> IF hr.req.timestamp = NoTimestamp THEN 0
                ELSE hr.now0 - hr.req.timestamp]

\* lines 104-249: the security event each branch of the gate logs
auditEvent(outcome) ==
  CASE outcome = "missing_fields" -> "replay_protection_missing_fields"
    [] outcome = "message_from_future" -> "replay_attack_future_timestamp"
    [] outcome = "message_too_old" -> "replay_attack_old_timestamp"
    [] outcome = "duplicate_nonce" -> "replay_attack_duplicate_nonce"
    [] outcome = "invalid_sequence" -> "replay_attack_invalid_sequence"
    [] outcome = "passed" -> "replay_protection_passed"

\* a gate layer rejects handler record hr (slot h) with a 400
GateReject(h, hr, error) ==
  /\ handlers' = [handlers EXCEPT ![h] = IdleHandler]
  /\ lastResp' = Answer(hr, 400, error)
  /\ lastGate' = [GateRecord(hr, FALSE) EXCEPT !.audit = {auditEvent(error)}]
  /\ UNCHANGED <<nonceCache, everAccepted, acceptedSeq>>

\* lines 234-256: all checks passed; the nonce is stored and next() runs the
\* route handler up to its first await
GatePass(h, hr) ==
  LET req == hr.req
      marked == [g \in Handlers |->
                   IF g # h /\ handlers[g].pc \in {"gate_find", "gate_resume"}
                      /\ handlers[g].req.nonce = req.nonce
                   THEN [handlers[g] EXCEPT !.overlap = TRUE]
                   ELSE handlers[g]]
      out == RouteOutcome(req, now)
  IN
  /\ nonceCache' = [nonceCache EXCEPT ![req.nonce] =
                      [timestamp |-> req.timestamp, acceptedAt |-> hr.now0]]
  /\ everAccepted' = everAccepted \cup {req.nonce}
  /\ acceptedSeq' = IF req.recipientId = NoId THEN acceptedSeq
                    ELSE [acceptedSeq EXCEPT ![Conv(req)] = req.sequenceNumber]
  /\ lastGate' = [GateRecord(hr, TRUE) EXCEPT !.audit = {auditEvent("passed")}]
  /\ IF out = "save"
     THEN /\ handlers' = [marked EXCEPT ![h] = [hr EXCEPT !.pc = "save_find"]]
          /\ lastResp' = NoResp
     ELSE /\ handlers' = [marked EXCEPT ![h] = IdleHandler]
          /\ lastResp' = Answer(hr, IF out = "missing_required" THEN 400 ELSE 500, out)

\* lines 198-232: the sequence layer against the last-seen value `last`;
\* `tracker` is the tracker as the handler left it before the comparison
SequenceLayer(h, hr, last, tracker) ==
  LET req == hr.req IN
  IF req.sequenceNumber <= last
  THEN /\ sequenceTracking' = tracker
       /\ GateReject(h, hr, "invalid_sequence")
  ELSE /\ sequenceTracking' =
            [tracker EXCEPT ![conversationKey(req.senderId, req.recipientId)] = req.sequenceNumber,
                            ![conversationKey(req.recipientId, req.senderId)] = req.sequenceNumber]
       /\ GatePass(h, hr)

\* is the body a verbatim copy of a stored message?
StoredCopy(req) ==
  { m \in messages :
      /\ m.senderId = req.senderId
      /\ m.recipientId = req.recipientId
      /\ m.nonce = req.nonce
      /\ m.timestamp = req.timestamp
      /\ m.sequenceNumber = req.sequenceNumber }

FreshNonce(req) ==
  /\ req.nonce \notin everAccepted
  /\ \A g \in Handlers : handlers[g].pc = "idle" \/ handlers[g].req.nonce # req.nonce

Arrival(req) ==
  [pc |-> "gate", req |-> req, now0 |-> now, lastRead |-> 0, overlap |-> FALSE,
   replay |-> req.complete /\ StoredCopy(req) # {},
   cached |-> req.nonce # NoNonce /\ nonceCache[req.nonce] # NoEntry,
   rewind |-> /\ req.recipientId # NoId /\ ~FieldsMissing(req)
              /\ TimestampLayer(req, now) = "ok" /\ FreshNonce(req)
              /\ findLastSequence(req.senderId, req.recipientId) > 0
              /\ req.sequenceNumber <= findLastSequence(req.senderId, req.recipientId)]

\* lines 97-196: a request enters the gate and runs to its first await
replayProtection(h, req) ==
  LET hr == Arrival(req) IN
  /\ handlers[h].pc = "idle"
  /\ \A g \in Handlers : g < h => handlers[g].pc # "idle"
  /\ UNCHANGED <<now, sweepDue, messages>>
  /\ IF FieldsMissing(req)
     THEN UNCHANGED sequenceTracking /\ GateReject(h, hr, "missing_fields")
     ELSE IF TimestampLayer(req, now) # "ok"
     THEN UNCHANGED sequenceTracking /\ GateReject(h, hr, TimestampLayer(req, now))
     ELSE IF nonceCache[req.nonce] # NoEntry
     THEN UNCHANGED sequenceTracking /\ GateReject(h, hr, "duplicate_nonce")
     ELSE IF req.senderId # NoId /\ req.recipientId # NoId
     THEN IF sequenceTracking[conversationKey(req.senderId, req.recipientId)] # Undefined
          THEN SequenceLayer(h, hr,
                 sequenceTracking[conversationKey(req.senderId, req.recipientId)],
                 sequenceTracking)
          ELSE /\ handlers' = [handlers EXCEPT ![h] = [hr EXCEPT !.pc = "gate_find"]]
               /\ lastResp' = NoResp
               /\ lastGate' = NoGate
               /\ UNCHANGED <<nonceCache, sequenceTracking, everAccepted, acceptedSeq>>
     ELSE UNCHANGED sequenceTracking /\ GatePass(h, hr)

\* lines 186-191: the store executes the gate's findOne
GateFind(h) ==
  /\ handlers[h].pc = "gate_find"
  /\ handlers' = [handlers EXCEPT ![h] =
        [@ EXCEPT !.pc = "gate_resume",
                  !.lastRead = findLastSequence(handlers[h].req.senderId,
                                                handlers[h].req.recipientId)]]
  /\ UNCHANGED <<now, sweepDue, nonceCache, sequenceTracking, messages, everAccepted, acceptedSeq>>
  /\ lastResp' = NoResp
  /\ lastGate' = NoGate

\* lines 193-256: the handler resumes with the store's answer
GateResume(h) ==
  LET hr == handlers[h]
      req == hr.req
      seeded == [sequenceTracking EXCEPT
                   ![conversationKey(req.senderId, req.recipientId)] = hr.lastRead,
                   ![conversationKey(req.recipientId, req.senderId)] = hr.lastRead]
  IN
  /\ hr.pc = "gate_resume"
  /\ SequenceLayer(h, hr, hr.lastRead, seeded)
  /\ UNCHANGED <<now, sweepDue, messages>>

\* ----- persisting the message: models/Message.js, routes/messages.js -------

\* Message.js lines 137-146: the store executes the pre-save hook's findOne
SaveFind(h) ==
  /\ handlers[h].pc = "save_find"
  /\ handlers' = [handlers EXCEPT ![h] =
        [@ EXCEPT !.pc = "save_insert",
                  !.lastRead = findLastSequence(handlers[h].req.senderId,
                                                handlers[h].req.recipientId)]]
  /\ UNCHANGED <<now, sweepDue, nonceCache, sequenceTracking, messages, everAccepted, acceptedSeq>>
  /\ lastResp' = NoResp
  /\ lastGate' = NoGate

\* a catch block that answers every storage error alike
routeCatchGeneric(thrown) == [status |-> 500, error |-> "send_failed"]

\* messages.js lines 47-62: the route's catch block, by error code
routeCatch(thrown) ==
  IF thrown = "E11000"
  THEN [status |-> 400, error |-> "duplicate_nonce"]
  ELSE [status |-> 500, error |-> "send_failed"]

\* Message.js lines 147-153 and the unique nonce index (line 131), then
\* messages.js lines 33-62: the hook's comparison, the insert, the answer
SaveInsert(h) ==
  LET hr == handlers[h]
      req == hr.req
      thrown ==
        IF hr.lastRead > 0 /\ req.sequenceNumber <= hr.lastRead THEN "ValidationError"
        ELSE IF \E m \in messages : m.nonce = req.nonce THEN "E11000"
        ELSE "none"
      outcome ==
        IF thrown = "none" THEN [status |-> 201, error |-> "none"] ELSE routeCatch(thrown)
  IN
  /\ hr.pc = "save_insert"
  /\ messages' = IF outcome.status = 201
                 THEN messages \cup
                        {[senderId |-> req.senderId, recipientId |-> req.recipientId,
                          timestamp |-> req.timestamp,
                          sequenceNumber |-> req.sequenceNumber,
                          nonce |-> req.nonce]}
                 ELSE messages
  /\ handlers' = [handlers EXCEPT ![h] = IdleHandler]
  /\ lastResp' = Answer(hr, outcome.status, outcome.error)
  /\ lastGate' = NoGate
  /\ UNCHANGED <<now, sweepDue, nonceCache, sequenceTracking,
                 everAccepted, acceptedSeq>>

\* ----- time, the sweep and the process ------------------------------------

\* one minute passes; the 60 s interval timer becomes due
Tick ==
  /\ now < MaxTime
  /\ ~sweepDue
  /\ now' = now + 1
  /\ sweepDue' = TRUE
  /\ UNCHANGED <<nonceCache, sequenceTracking, messages, handlers, everAccepted, acceptedSeq>>
  /\ lastResp' = NoResp
  /\ lastGate' = NoGate

\* replayProtection.js lines 73-85: the interval callback
SweepEvicts(entry, t) == t - entry.timestamp > MAX_NONCE_AGE

Sweep ==
  /\ sweepDue
  /\ sweepDue' = FALSE
  /\ nonceCache' = [n \in Nonces |->
        IF nonceCache[n] # NoEntry /\ SweepEvicts(nonceCache[n], now)
        THEN NoEntry ELSE nonceCache[n]]
  /\ UNCHANGED <<now, sequenceTracking, messages, handlers, everAccepted, acceptedSeq>>
  /\ lastResp' = NoResp
  /\ lastGate' = NoGate

\* the relay process restarts: the module-level maps (lines 63, 70) are new,
\* requests in flight are gone, the message store is kept
Restart ==
  /\ nonceCache' = [n \in Nonces |-> NoEntry]
  /\ sequenceTracking' = [k \in Peers \X Peers |-> Undefined]
  /\ handlers' = [h \in Handlers |-> IdleHandler]
  /\ sweepDue' = FALSE
  /\ UNCHANGED <<now, messages, everAccepted, acceptedSeq>>
  /\ lastResp' = NoResp
  /\ lastGate' = NoGate

\* ----- the handshake: values ----------------------------------------------

\* every authenticated user of the relay; A and B run the client, C only
\* calls the relay's endpoints
Users == Peers \cup {"C"}
UserOrder == <<"A", "B", "C">>
ExchangeIds == 1..MaxExchanges
NoExchangeId == 0
NoPrivateKey == 0

\* crypto.subtle.exportKey('spki', keyPair.publicKey) of the pair with private key k
exportKey(k) == <<"P-256", k>>
NoPublicKey == exportKey(NoPrivateKey)
\* the private key of a party on the path between a client and the relay
AttackerKey == MaxKeys + 1
\* the difference between two clients' clocks when they disagree
ClockSkew == MAX_NONCE_AGE + 1

\* crypto.subtle.deriveBits({name:'ECDH', public}, privateKey, 256): g^(ab)
deriveBits(public, privateKey) == {public[2], privateKey}

\* crypto.subtle.sign with the identity key of `signer` over the JSON of
\* {type, fromUserId, toUserId, publicKey, timestamp}, and crypto.subtle.verify
\* against the identity public key of `owner`
NoSignature ==
  [signer |-> NoId, type |-> "none", fromUserId |-> NoId, toUserId |-> NoId,
   publicKey |-> NoPublicKey, timestamp |-> NoTimestamp]
sign(signer, type, from, to, publicKey, timestamp) ==
  [signer |-> signer, type |-> type, fromUserId |-> from, toUserId |-> to,
   publicKey |-> publicKey, timestamp |-> timestamp]
\* a verification that accepts every signature
verifyAny(owner, signature, type, from, to, publicKey, timestamp) == TRUE

verify(owner, signature, type, from, to, publicKey, timestamp) ==
  signature = sign(owner, type, from, to, publicKey, timestamp)

Rank(u) == CHOOSE i \in 1..Len(UserOrder) : UserOrder[i] = u
\* [myUserId, otherUserId].sort()
sortedIds(a, b) == IF Rank(a) <= Rank(b) THEN <<a, b>> ELSE <<b, a>>

\* a key derivation whose info string names the deriving user first
deriveSessionKeyUnsorted(sharedSecret, otherPublicKey, myUserId, otherUserId) ==
  [secret |-> sharedSecret, info |-> <<myUserId, otherUserId>>]

\* keyExchange.ts deriveSessionKey: HKDF(sharedSecret, salt 0^32, info)
deriveSessionKey(sharedSecret, otherPublicKey, myUserId, otherUserId) ==
  [secret |-> sharedSecret,
   info |-> IF otherUserId # NoId THEN sortedIds(myUserId, otherUserId)
            ELSE <<myUserId>>]

NoKey == [secret |-> {}, info |-> <<>>]
\* an entry of the client's sessionKeys map, with the exchange it came from
\* whether the counter-party's signature was verified before deriving, and
\* the timestamp and the arrival time of the handshake message it came from
NoSession ==
  [key |-> NoKey, exchangeId |-> NoExchangeId, verified |-> FALSE,
   timestamp |-> NoTimestamp, derivedAt |-> NoTimestamp]

NoExchange ==
  [present |-> FALSE, fromUserId |-> NoId, toUserId |-> NoId,
   publicKey |-> NoPublicKey, signature |-> NoSignature, timestamp |-> NoTimestamp,
   responsePublicKey |-> NoPublicKey, responseSignature |-> NoSignature,
   responseTimestamp |-> NoTimestamp, createdAt |-> NoTimestamp,
   respondedBy |-> NoId, confirmedBy |-> {}]
\* what became of an exchange that left the relay's map
NotRemoved ==
  [by |-> "none", fromUserId |-> NoId, toUserId |-> NoId, confirmedBy |-> {},
   responded |-> FALSE, createdAt |-> NoTimestamp]

IdleClient ==
  [pc |-> "idle", pendingId |-> NoExchangeId, pendingKey |-> NoPublicKey,
   pendingTimestamp |-> NoTimestamp, exchangeId |-> NoExchangeId, myKey |-> NoPrivateKey]

Other(u) == CHOOSE v \in Peers : v # u

\* ----- the relay's key-exchange endpoints: routes/keyExchange.js -----------

Min(S) == CHOOSE x \in S : \A y \in S : x <= y

\* GET /pending/:userId, lines 134-139: exchanges addressed to the caller by
\* userId that carry no response yet
pendingForMe(caller, userId) ==
  { e \in ExchangeIds :
      /\ pendingExchanges[e].present
      /\ pendingExchanges[e].toUserId = caller
      /\ pendingExchanges[e].fromUserId = userId
      /\ pendingExchanges[e].responsePublicKey = NoPublicKey }

\* GET /responses/:userId, lines 171-182: exchanges the caller initiated
\* towards userId that carry a response
responsesFor(caller, userId) ==
  { e \in ExchangeIds :
      /\ pendingExchanges[e].present
      /\ pendingExchanges[e].fromUserId = caller
      /\ pendingExchanges[e].toUserId = userId
      /\ pendingExchanges[e].responsePublicKey # NoPublicKey }

\* a relay that lets every authenticated user answer an exchange
responseStatusOpen(caller, e) == IF ~pendingExchanges[e].present THEN 404 ELSE 200

\* POST /response, lines 66-90: the status the relay answers with
responseStatus(caller, e) ==
  IF ~pendingExchanges[e].present THEN 404
  ELSE IF caller # pendingExchanges[e].fromUserId /\ caller # pendingExchanges[e].toUserId
  THEN 403
  ELSE 200

\* a relay that never finds an exchange confirmed by both sides
bothConfirmedNever(exchange, confirmedBy) == FALSE

\* POST /confirm, lines 215-248
bothConfirmed(exchange, confirmedBy) ==
  \/ Cardinality(confirmedBy) >= 2
  \/ exchange.fromUserId \in confirmedBy /\ exchange.toUserId \in confirmedBy

confirmExchange(caller, e) ==
  LET exchange == pendingExchanges[e]
      confirmedBy == exchange.confirmedBy \cup {caller}
  IN
  IF ~exchange.present
  THEN UNCHANGED <<pendingExchanges, removed>>
  ELSE IF bothConfirmed(exchange, confirmedBy)
  THEN /\ pendingExchanges' = [pendingExchanges EXCEPT ![e] = NoExchange]
       /\ removed' = [removed EXCEPT ![e] =
            [by |-> "confirm", fromUserId |-> exchange.fromUserId,
             toUserId |-> exchange.toUserId, confirmedBy |-> confirmedBy,
             responded |-> exchange.responsePublicKey # NoPublicKey,
             createdAt |-> exchange.createdAt]]
  ELSE /\ pendingExchanges' = [pendingExchanges EXCEPT ![e].confirmedBy = confirmedBy]
       /\ UNCHANGED removed

\* an authenticated user who is not running the client posts /confirm for an
\* exchange id
confirmRequest ==
  /\ \E caller \in Users \ Peers : \E e \in ExchangeIds :
       /\ pendingExchanges[e].present
       /\ confirmExchange(caller, e)
  /\ UNCHANGED <<nextExchange, nextKey, sessionKeys, ecdhKeyPairs, client>>
  /\ UNCHANGED <<gateVars, clientVars>>

\* POST /response, lines 55-125, called directly by the initiator of the
\* exchange: the relay takes the caller for a party of the exchange (line 79)
\* and stores what it sent as the response
responseRequest ==
  /\ \E caller \in Peers : \E e \in ExchangeIds :
       /\ client[caller].pc = "idle"
       /\ pendingExchanges[e].fromUserId = caller
       /\ responseStatus(caller, e) = 200
       /\ pendingExchanges' = [pendingExchanges EXCEPT ![e] =
             [@ EXCEPT !.responsePublicKey = exportKey(AttackerKey),
                       !.responseSignature =
                           sign(caller, "response", caller, pendingExchanges[e].toUserId,
                                exportKey(AttackerKey), now),
                       !.responseTimestamp = now,
                       !.respondedBy = caller]]
  /\ UNCHANGED <<removed, nextExchange, nextKey, sessionKeys, ecdhKeyPairs, client>>
  /\ UNCHANGED <<gateVars, clientVars>>

\* POST /response, lines 68-96: the event written to the security log
responseEvent(status) ==
  CASE status = 404 -> "key_exchange_not_found"
    [] status = 403 -> "key_exchange_unauthorized"
    [] status = 200 -> "key_exchange_response"

\* POST /response, lines 55-125, sent by an authenticated user for any
\* exchange id, with a public key of the sender's choosing
postResponse(caller) ==
  /\ \E e \in ExchangeIds :
       LET status == responseStatus(caller, e) IN
       /\ IF status = 200
          THEN pendingExchanges' = [pendingExchanges EXCEPT ![e] =
                 [@ EXCEPT !.responsePublicKey = exportKey(AttackerKey),
                           !.responseSignature =
                               sign(caller, "response", caller,
                                    IF caller = pendingExchanges[e].fromUserId
                                    THEN pendingExchanges[e].toUserId
                                    ELSE pendingExchanges[e].fromUserId,
                                    exportKey(AttackerKey), now),
                           !.responseTimestamp = now,
                           !.respondedBy = caller]]
          ELSE UNCHANGED pendingExchanges
       /\ verdict' = [kind |-> "response", caller |-> caller, exchangeId |-> e,
                      status |-> status, event |-> responseEvent(status)]
  /\ UNCHANGED <<removed, nextExchange, nextKey, sessionKeys, ecdhKeyPairs, client>>
  /\ UNCHANGED <<gateVars, sequenceCounters, storageVars, emitted, inFlight, trial, wire>>

\* the exchange leaves the map because its time is up
dropExchange(e) ==
  /\ pendingExchanges[e].present
  /\ pendingExchanges' = [pendingExchanges EXCEPT ![e] = NoExchange]
  /\ removed' = [removed EXCEPT ![e] =
       [by |-> "expired", fromUserId |-> pendingExchanges[e].fromUserId,
        toUserId |-> pendingExchanges[e].toUserId,
        confirmedBy |-> pendingExchanges[e].confirmedBy,
        responded |-> pendingExchanges[e].responsePublicKey # NoPublicKey,
        createdAt |-> pendingExchanges[e].createdAt]]

\* a timer that runs twice as long
timerDueLate(e) == now - pendingExchanges[e].createdAt >= 2 * EXCHANGE_EXPIRY

\* lines 32-35: setTimeout(..., 5 * 60 * 1000) set when the exchange was created
timerDue(e) == now - pendingExchanges[e].createdAt >= EXCHANGE_EXPIRY

\* lines 32-35: the timer's callback deletes the exchange
exchangeTimeout ==
  /\ \E e \in ExchangeIds : timerDue(e) /\ dropExchange(e)
  /\ UNCHANGED <<nextExchange, nextKey, sessionKeys, ecdhKeyPairs, client>>
  /\ UNCHANGED <<gateVars, clientVars>>

\* a minute passes at the relay; a timer that is due fires first
relayMinute ==
  /\ now < StartTime + MaxMinutes
  /\ \A e \in ExchangeIds : pendingExchanges[e].present => ~timerDue(e)
  /\ now' = now + 1
  /\ UNCHANGED <<sweepDue, nonceCache, sequenceTracking, messages, handlers,
                 lastResp, lastGate, everAccepted, acceptedSeq>>
  /\ UNCHANGED <<kxVars, clientVars>>

\* lines 32-35 and 173-177: the 5-minute timer, or the expiry filter of
\* GET /responses, drops the exchange, at whatever time that is
expireExchange ==
  /\ \E e \in ExchangeIds : dropExchange(e)
  /\ UNCHANGED <<nextExchange, nextKey, sessionKeys, ecdhKeyPairs, client>>
  /\ UNCHANGED <<gateVars, clientVars>>

\* ----- the client's handshake resolution: Chat.tsx establishSession --------

\* lines 864-905: no session key for the chat partner, the resolution starts
establishSession(u) ==
  /\ client[u].pc = "idle"
  /\ sessionKeys[<<u, Other(u)>>] = NoSession
  /\ client' = [client EXCEPT ![u] = [IdleClient EXCEPT !.pc = "getPending"]]
  /\ UNCHANGED <<pendingExchanges, removed, nextExchange, nextKey, sessionKeys, ecdhKeyPairs>>
  /\ UNCHANGED <<gateVars, clientVars>>

\* lines 433-443: keyExchangeService.getPending(recipientId); the client
\* keeps pendingExchanges[0]
getPending(u) ==
  LET list == pendingForMe(u, Other(u)) IN
  /\ client[u].pc = "getPending"
  /\ client' = [client EXCEPT ![u] =
        [@ EXCEPT !.pc = "getResponses",
                  !.pendingId = IF list = {} THEN NoExchangeId ELSE Min(list),
                  !.pendingKey = IF list = {} THEN NoPublicKey
                                 ELSE pendingExchanges[Min(list)].publicKey,
                  !.pendingTimestamp = IF list = {} THEN NoTimestamp
                                       ELSE pendingExchanges[Min(list)].timestamp]]
  /\ UNCHANGED <<pendingExchanges, removed, nextExchange, nextKey, sessionKeys, ecdhKeyPairs>>
  /\ UNCHANGED <<gateVars, clientVars>>

\* lines 636-694 and 784-842: the initiator completes exchange e with the
\* response key the relay returned and its stored ECDH key pair
completeExchange(u, e, responsePublicKey) ==
  LET sharedSecret == deriveBits(responsePublicKey, ecdhKeyPairs[u][e])
      sessionKey == deriveSessionKey(sharedSecret, responsePublicKey, u, Other(u))
  IN
  /\ sessionKeys' = [sessionKeys EXCEPT ![<<u, Other(u)>>] =
        [key |-> sessionKey, exchangeId |-> e, verified |-> FALSE,
         timestamp |-> pendingExchanges[e].responseTimestamp, derivedAt |-> now]]
  /\ ecdhKeyPairs' = [ecdhKeyPairs EXCEPT ![u][e] = NoPrivateKey]
  /\ client' = [client EXCEPT ![u] = [@ EXCEPT !.pc = "confirm", !.exchangeId = e]]

\* lines 445-513, 601-634, 699-733: keyExchangeService.getResponses(recipientId)
\* and the choice of the path: respond to a pending exchange, complete an
\* own exchange that has a response, or start a new one
getResponses(u) ==
  LET responses == responsesFor(u, Other(u)) IN
  /\ client[u].pc = "getResponses"
  /\ IF client[u].pendingId # NoExchangeId
     THEN /\ nextKey <= MaxKeys
          /\ client' = [client EXCEPT ![u] = [@ EXCEPT !.pc = "respond", !.myKey = nextKey]]
          /\ nextKey' = nextKey + 1
          /\ UNCHANGED <<sessionKeys, ecdhKeyPairs>>
     ELSE IF responses # {} /\ ecdhKeyPairs[u][Min(responses)] # NoPrivateKey
     THEN /\ completeExchange(u, Min(responses),
                              pendingExchanges[Min(responses)].responsePublicKey)
          /\ UNCHANGED nextKey
     ELSE /\ nextKey <= MaxKeys
          /\ client' = [client EXCEPT ![u] = [@ EXCEPT !.pc = "initiate", !.myKey = nextKey]]
          /\ nextKey' = nextKey + 1
          /\ UNCHANGED <<sessionKeys, ecdhKeyPairs>>
  /\ UNCHANGED <<pendingExchanges, removed, nextExchange>>
  /\ UNCHANGED <<gateVars, clientVars>>

\* lines 516-597 with POST /response: the relay stores the response, then the
\* responder verifies the initiator's signature, derives and stores the key;
\* relayedKey is the response public key as it reaches the relay, timestamp
\* the responder's Date.now()
respondWith(u, relayedKey, timestamp) ==
  LET e == client[u].pendingId
      v == Other(u)
      myPublicKey == exportKey(client[u].myKey)
      isValidOriginal == verify(v, pendingExchanges[e].signature, "initiate", v, u,
                                client[u].pendingKey, client[u].pendingTimestamp)
      sharedSecret == deriveBits(client[u].pendingKey, client[u].myKey)
      sessionKey == deriveSessionKey(sharedSecret, client[u].pendingKey, u, v)
  IN
  /\ client[u].pc = "respond"
  /\ IF responseStatus(u, e) # 200
     THEN /\ client' = [client EXCEPT ![u] = IdleClient]
          /\ UNCHANGED <<pendingExchanges, sessionKeys>>
     ELSE /\ pendingExchanges' = [pendingExchanges EXCEPT ![e] =
                [@ EXCEPT !.responsePublicKey = relayedKey,
                          !.responseSignature =
                              sign(u, "response", u, v, myPublicKey, timestamp),
                          !.responseTimestamp = timestamp,
                          !.respondedBy = u]]
          /\ IF isValidOriginal
             THEN /\ sessionKeys' = [sessionKeys EXCEPT ![<<u, v>>] =
                        [key |-> sessionKey, exchangeId |-> e, verified |-> TRUE,
                         timestamp |-> client[u].pendingTimestamp, derivedAt |-> now]]
                  /\ client' = [client EXCEPT ![u] =
                        [@ EXCEPT !.pc = "confirm", !.exchangeId = e]]
             ELSE /\ client' = [client EXCEPT ![u] = IdleClient]
                  /\ UNCHANGED sessionKeys
  /\ UNCHANGED <<removed, nextExchange, nextKey, ecdhKeyPairs>>
  /\ UNCHANGED <<gateVars, clientVars>>

respond(u) == respondWith(u, exportKey(client[u].myKey), now)

\* the response reaches the relay with the public key replaced and the
\* responder's signature forwarded
respondIntercepted(u) == respondWith(u, exportKey(AttackerKey), now)

\* the responder's clock runs behind the initiator's by more than the window
respondSkewed(u) == respondWith(u, exportKey(client[u].myKey), now - ClockSkew)

\* lines 593-594, 690-691, 838-839: keyExchangeService.confirm(exchangeId)
confirm(u) ==
  /\ client[u].pc = "confirm"
  /\ confirmExchange(u, client[u].exchangeId)
  /\ client' = [client EXCEPT ![u] = IdleClient]
  /\ UNCHANGED <<nextExchange, nextKey, sessionKeys, ecdhKeyPairs>>
  /\ UNCHANGED <<gateVars, clientVars>>

\* lines 736-754 with POST /initiate: the relay creates the exchange, the
\* client stores its ECDH key pair under the exchange id; relayedKey is the
\* public key as it reaches the relay, timestamp the initiator's Date.now()
initiateWith(u, relayedKey, timestamp) ==
  LET e == nextExchange
      v == Other(u)
      myPublicKey == exportKey(client[u].myKey)
  IN
  /\ client[u].pc = "initiate"
  /\ nextExchange <= MaxExchanges
  /\ pendingExchanges' = [pendingExchanges EXCEPT ![e] =
        [NoExchange EXCEPT !.present = TRUE, !.fromUserId = u, !.toUserId = v,
                           !.publicKey = relayedKey,
                           !.signature =
                               sign(u, "initiate", u, v, myPublicKey, timestamp),
                           !.timestamp = timestamp,
                           !.createdAt = now]]
  /\ nextExchange' = nextExchange + 1
  /\ ecdhKeyPairs' = [ecdhKeyPairs EXCEPT ![u][e] = client[u].myKey]
  /\ client' = [client EXCEPT ![u] = [@ EXCEPT !.pc = "recheck", !.exchangeId = e]]
  /\ UNCHANGED <<removed, nextKey, sessionKeys>>
  /\ UNCHANGED <<gateVars, clientVars>>

initiate(u) == initiateWith(u, exportKey(client[u].myKey), now)

\* the request reaches the relay with the public key replaced and the
\* initiator's signature forwarded
initiateIntercepted(u) == initiateWith(u, exportKey(AttackerKey), now)

\* the initiator's clock runs behind the responder's by more than the window
initiateSkewed(u) == initiateWith(u, exportKey(client[u].myKey), now - ClockSkew)

\* lines 736-741 with POST /initiate, keyExchange.js lines 9-45: the relay
\* creates the exchange while the client awaits the answer, its ECDH key pair
\* in a local variable
initiateSubmit(u) ==
  LET e == nextExchange
      v == Other(u)
      myPublicKey == exportKey(client[u].myKey)
  IN
  /\ client[u].pc = "initiate"
  /\ nextExchange <= MaxExchanges
  /\ pendingExchanges' = [pendingExchanges EXCEPT ![e] =
        [NoExchange EXCEPT !.present = TRUE, !.fromUserId = u, !.toUserId = v,
                           !.publicKey = myPublicKey,
                           !.signature = sign(u, "initiate", u, v, myPublicKey, now),
                           !.timestamp = now,
                           !.createdAt = now]]
  /\ nextExchange' = nextExchange + 1
  /\ client' = [client EXCEPT ![u] = [@ EXCEPT !.pc = "initiated", !.exchangeId = e]]
  /\ UNCHANGED <<removed, nextKey, sessionKeys, ecdhKeyPairs>>
  /\ UNCHANGED <<gateVars, clientVars>>

\* lines 742-754: the answer has arrived; storeEcdhKeyPair and
\* storeEcdhKeyPairPersistent under the exchange id the relay returned
initiateStore(u) ==
  /\ client[u].pc = "initiated"
  /\ ecdhKeyPairs' = [ecdhKeyPairs EXCEPT ![u][client[u].exchangeId] = client[u].myKey]
  /\ client' = [client EXCEPT ![u] = [@ EXCEPT !.pc = "recheck"]]
  /\ UNCHANGED <<pendingExchanges, removed, nextExchange, nextKey, sessionKeys>>
  /\ UNCHANGED <<gateVars, clientVars>>

\* the page of u is closed or loaded again while establishSession runs: the
\* call and its local variables are gone, what was stored stays
closePage(u) ==
  /\ client[u].pc # "idle"
  /\ client' = [client EXCEPT ![u] = IdleClient]
  /\ UNCHANGED <<pendingExchanges, removed, nextExchange, nextKey, sessionKeys, ecdhKeyPairs>>
  /\ UNCHANGED <<gateVars, clientVars>>

\* lines 756-851: the second getResponses right after initiating
recheck(u) ==
  LET e == client[u].exchangeId IN
  /\ client[u].pc = "recheck"
  /\ IF e \in responsesFor(u, Other(u))
     THEN completeExchange(u, e, pendingExchanges[e].responsePublicKey)
     ELSE /\ client' = [client EXCEPT ![u] = IdleClient]
          /\ UNCHANGED <<sessionKeys, ecdhKeyPairs>>
  /\ UNCHANGED <<pendingExchanges, removed, nextExchange, nextKey>>
  /\ UNCHANGED <<gateVars, clientVars>>

\* keyExchange.ts lines 471-495 and Chat.tsx lines 608-626: the page was
\* reloaded, so the in-memory map is empty, and the password prompt for the
\* persistent copy is cancelled or fails: no key pair for exchange e
forgetEcdhKeyPair(u) ==
  /\ client[u].pc = "idle"
  /\ \E e \in ExchangeIds :
       /\ ecdhKeyPairs[u][e] # NoPrivateKey
       /\ ecdhKeyPairs' = [ecdhKeyPairs EXCEPT ![u][e] = NoPrivateKey]
  /\ UNCHANGED <<pendingExchanges, removed, nextExchange, nextKey, sessionKeys, client>>
  /\ UNCHANGED <<gateVars, clientVars>>

\* keyExchange.ts lines 454-465 and Chat.tsx lines 873-889: getSessionKey
\* returns null (the page was reloaded, or the entry is older than an hour)
\* and the password prompt for the persistent copy is cancelled
forgetSessionKey(u) ==
  /\ client[u].pc = "idle"
  /\ sessionKeys[<<u, Other(u)>>] # NoSession
  /\ sessionKeys' = [sessionKeys EXCEPT ![<<u, Other(u)>>] = NoSession]
  /\ UNCHANGED <<pendingExchanges, removed, nextExchange, nextKey, ecdhKeyPairs, client>>
  /\ UNCHANGED <<gateVars, clientVars>>

InitKeyExchange ==
  /\ pendingExchanges = [e \in ExchangeIds |-> NoExchange]
  /\ removed = [e \in ExchangeIds |-> NotRemoved]
  /\ nextExchange = 1
  /\ nextKey = 1
  /\ sessionKeys = [p \in Peers \X Peers |-> NoSession]
  /\ ecdhKeyPairs = [u \in Peers |-> [e \in ExchangeIds |-> NoPrivateKey]]
  /\ client = [u \in Peers |-> IdleClient]

\* nonces are random 128-bit values: the k-th distinct nonce the relay holds
\* is named k, so a request carries a nonce the relay holds or the next one
KnownNonces ==
  everAccepted \cup { handlers[g].req.nonce : g \in { k \in Handlers : handlers[k].pc # "idle" } }
Presentable(req) == req.nonce <= Max(KnownNonces) + 1

\* ----- the client's send path: messageEncryption.ts, Chat.tsx ---------------

\* messageEncryption.ts lines 18-24: (sequenceCounters.get(id) || 0) + 1
getSequenceNumber(conversationId) == sequenceCounters[conversationId] + 1

\* messageEncryption.ts lines 63-111 as posted by messageService.send: a new
\* random nonce, the next sequence number of the conversation id, Date.now()
encryptMessage(u, conversationId) ==
  [senderId |-> u, recipientId |-> Other(u), nonce |-> Max(KnownNonces) + 1,
   timestamp |-> now, sequenceNumber |-> getSequenceNumber(conversationId),
   complete |-> TRUE]

\* Chat.tsx lines 864-917: with a session key for the chat partner the
\* message is encrypted under the conversation id `${user.id}-${currentChat.id}`
\* and posted; the relay runs the request up to its first await
handleSendMessage(u) ==
  LET conversationId == <<u, Other(u)>> IN
  /\ Quiet
  /\ \A g \in Handlers : handlers[g].pc = "idle"
  /\ sessionKeys[conversationId] # NoSession
  /\ getSequenceNumber(conversationId) <= MaxSeq
  /\ Max(KnownNonces) + 1 <= NumNonces
  /\ sequenceCounters' = [sequenceCounters EXCEPT ![conversationId] =
                             getSequenceNumber(conversationId)]
  /\ replayProtection(1, encryptMessage(u, conversationId))
  /\ UNCHANGED <<kxVars, storageVars, codecVars>>

InitCounters == sequenceCounters = [p \in Peers \X Peers |-> 0]

\* the numbers encryptMessage has taken for each conversation id, in call
\* order, and the calls still waiting for crypto.subtle.encrypt
InitCalls ==
  /\ emitted = [p \in Peers \X Peers |-> <<>>]
  /\ inFlight = {}

\* messageEncryption.ts lines 63-80: the part of encryptMessage before its
\* await: the sequence number is taken and the counter is set
encryptMessageCall(u) ==
  LET conversationId == <<u, Other(u)>> IN
  /\ Len(emitted[conversationId]) < MaxCalls
  /\ sequenceCounters' = [sequenceCounters EXCEPT ![conversationId] =
                             getSequenceNumber(conversationId)]
  /\ emitted' = [emitted EXCEPT ![conversationId] =
                   Append(@, getSequenceNumber(conversationId))]
  /\ inFlight' = inFlight \cup
                   {<<conversationId, Len(emitted[conversationId]) + 1>>}
  /\ UNCHANGED <<trial, verdict, wire>>

\* lines 82-110: crypto.subtle.encrypt resolves and the message is returned,
\* or it rejects and the call throws; the counter stays as it is
encryptMessageSettles ==
  /\ \E call \in inFlight, resolved \in BOOLEAN :
       inFlight' = inFlight \ {call}
  /\ UNCHANGED <<sequenceCounters, emitted, trial, verdict, wire>>

\* line 12: sequenceCounters is a module-level Map; the page of u is loaded
\* again and the module starts with an empty one
reloadModule(u) ==
  /\ sequenceCounters' = [p \in Peers \X Peers |->
                             IF p[1] = u THEN 0 ELSE sequenceCounters[p]]
  /\ inFlight' = {call \in inFlight : call[1][1] # u}
  /\ UNCHANGED <<emitted, trial, verdict, wire>>

\* ----- the client's key stores over time: keyExchange.ts, keyStorage.ts ------

\* an entry of the in-memory map or of the IndexedDB store: the time written
\* into establishedAt / createdAt, and the time the key itself was made
NoStored == [present |-> FALSE, stamp |-> 0, born |-> 0]
Stored(stamp, born) == [present |-> TRUE, stamp |-> stamp, born |-> born]
\* the key a lookup handed to its caller
NotObtained == [kind |-> "none", born |-> 0, at |-> 0]
Obtained(kind, entry) == [kind |-> kind, born |-> entry.born, at |-> clientClock]

\* keyExchange.ts lines 454-465 and keyStorage.ts lines 399-407: the entry
\* left behind by a lookup at time t; the lookup returns its key if present
getSessionKey(entry, t) ==
  IF entry.present /\ t - entry.stamp > ONE_HOUR THEN NoStored ELSE entry

\* keyExchange.ts lines 446-452: establishedAt = Date.now()
storeSessionKey(entry, t) == Stored(t, entry.born)

\* Chat.tsx lines 326-330: loadMessages reads the in-memory map
loadMessages ==
  LET inMemory == getSessionKey(memorySession, clientClock) IN
  /\ memorySession' = inMemory
  /\ obtained' = IF inMemory.present THEN Obtained("session", inMemory) ELSE NotObtained
  /\ UNCHANGED <<clientClock, persistentSession, memoryPair, persistentPair, pairTimers>>

\* Chat.tsx lines 873-904: handleSendMessage finds its session key in memory,
\* else (password entered or prompt cancelled) in IndexedDB and puts it back
\* into memory, else has establishSession make and store a new one
sendKeyLookup ==
  LET inMemory == getSessionKey(memorySession, clientClock)
      persisted == getSessionKey(persistentSession, clientClock)
      fresh == Stored(clientClock, clientClock)
  IN
  /\ UNCHANGED <<clientClock, memoryPair, persistentPair, pairTimers>>
  /\ IF inMemory.present
     THEN /\ memorySession' = inMemory
          /\ obtained' = Obtained("session", inMemory)
          /\ UNCHANGED persistentSession
     ELSE \E password \in BOOLEAN :
            IF password /\ persisted.present
            THEN /\ persistentSession' = persisted
                 /\ memorySession' = storeSessionKey(persisted, clientClock)
                 /\ obtained' = Obtained("session", persisted)
            ELSE /\ persistentSession' = fresh
                 /\ memorySession' = fresh
                 /\ obtained' = Obtained("session", fresh)

\* keyExchange.ts lines 484-495 and keyStorage.ts lines 261-269: the entry
\* left behind by a key pair lookup at time t
getEcdhKeyPair(entry, t) ==
  IF entry.present /\ t - entry.stamp > TEN_MINUTES THEN NoStored ELSE entry

\* keyExchange.ts lines 471-476: createdAt = Date.now()
storeEcdhKeyPair(entry, t) == Stored(t, entry.born)

\* Chat.tsx lines 703-750: establishSession makes the key pair of a new exchange
\* and stores it in memory, with its clean-up timer, and in IndexedDB
storeNewKeyPair ==
  /\ ~memoryPair.present /\ ~persistentPair.present
  /\ memoryPair' = Stored(clientClock, clientClock)
  /\ persistentPair' = Stored(clientClock, clientClock)
  /\ pairTimers' = pairTimers \cup {clientClock + TEN_MINUTES}
  /\ obtained' = NotObtained
  /\ UNCHANGED <<clientClock, memorySession, persistentSession>>

\* Chat.tsx lines 606-686: establishSession, given a response to its exchange,
\* looks the key pair up in memory, else (password entered or prompt
\* cancelled) in IndexedDB and puts it back into memory; it then derives the
\* session key and clears the pair, unless importing the response key throws
completionLookup ==
  LET inMemory == getEcdhKeyPair(memoryPair, clientClock)
      persisted == getEcdhKeyPair(persistentPair, clientClock)
  IN
  /\ UNCHANGED <<clientClock, memorySession, persistentSession>>
  /\ \E password \in BOOLEAN : \E derived \in BOOLEAN :
       LET fromStore == ~inMemory.present /\ password /\ persisted.present
           found == IF inMemory.present THEN inMemory
                    ELSE IF fromStore THEN persisted ELSE NoStored
       IN
       /\ obtained' = IF found.present THEN Obtained("pair", found) ELSE NotObtained
       /\ pairTimers' = IF fromStore THEN pairTimers \cup {clientClock + TEN_MINUTES}
                        ELSE pairTimers
       /\ IF found.present /\ derived
          THEN memoryPair' = NoStored /\ persistentPair' = NoStored
          ELSE /\ memoryPair' = IF fromStore THEN storeEcdhKeyPair(persisted, clientClock)
                                ELSE inMemory
               /\ persistentPair' = IF inMemory.present \/ ~password THEN persistentPair
                                    ELSE persisted

\* keyExchange.ts lines 478-481: a clean-up timer fires
pairTimeout ==
  /\ \E due \in pairTimers :
       /\ due <= clientClock
       /\ pairTimers' = pairTimers \ {due}
  /\ memoryPair' = NoStored
  /\ obtained' = NotObtained
  /\ UNCHANGED <<clientClock, memorySession, persistentSession, persistentPair>>

\* the page is reloaded: the module-level maps are new, the timers are gone
reloadPage ==
  /\ memorySession' = NoStored
  /\ memoryPair' = NoStored
  /\ pairTimers' = {}
  /\ obtained' = NotObtained
  /\ UNCHANGED <<clientClock, persistentSession, persistentPair>>

\* ten minutes pass on the client
clientTick ==
  /\ clientClock < MaxClock
  /\ clientClock' = clientClock + 1
  /\ obtained' = NotObtained
  /\ UNCHANGED <<memorySession, persistentSession, memoryPair, persistentPair, pairTimers>>

InitStorage ==
  /\ clientClock = 0
  /\ memorySession = NoStored
  /\ persistentSession = NoStored
  /\ memoryPair = NoStored
  /\ persistentPair = NoStored
  /\ pairTimers = {}
  /\ obtained = NotObtained

\* ----- specifications ------------------------------------------------------

InitGate ==
  /\ now = StartTime
  /\ sweepDue = FALSE
  /\ nonceCache = [n \in Nonces |-> NoEntry]
  /\ sequenceTracking = [k \in Peers \X Peers |-> Undefined]
  /\ messages = {}
  /\ handlers = [h \in Handlers |-> IdleHandler]
  /\ lastResp = NoResp
  /\ lastGate = NoGate
  /\ everAccepted = {}
  /\ acceptedSeq = [c \in Convs |-> 0]

\* the relay and both clients right after start-up
\* no codec input is under study
NoTrial == [kind |-> "none"]
InitTrial == trial = NoTrial /\ verdict = NoTrial
InitWire == wire = {}
InitCodec == InitCalls /\ InitTrial /\ InitWire

Init == InitGate /\ InitKeyExchange /\ InitCounters /\ InitStorage /\ InitCodec

\* ----- what the client puts into its requests: Chat.tsx, services ----------

\* a value a client holds or computes: what kind of thing it is and whose
Value(class, owner) == [class |-> class, owner |-> owner]
\* the RSA-PSS identity key pair of u and an ECDH pair u generated
identityKeyPair(u) ==
  [privateKey |-> Value("identityPrivate", u), publicKey |-> Value("identityPublic", u)]
generateKey(u) ==
  [privateKey |-> Value("ecdhPrivate", u), publicKey |-> Value("ecdhPublic", u)]
\* crypto.subtle.exportKey and btoa give the bytes of the key they are given
exportedBytes(key) == key
\* crypto.subtle.sign gives a signature, whatever the signed data
subtleSign(privateKey, data) == Value("signature", privateKey.owner)
\* crypto.subtle.encrypt gives ciphertext with its tag
subtleEncrypt(sessionKey, plaintext) == Value("ciphertext", plaintext.owner)
\* ids, times, counters, random nonces and ivs, file names and sizes
metadata(u) == Value("metadata", u)
\* the session key and the text or file of u
sessionKeyOf(u) == Value("sessionKey", u)
plaintextOf(u) == Value("plaintext", u)

\* the private half, exported in place of the public one
exchangePrivateHalf(pair) == exportedBytes(pair.privateKey)

\* Chat.tsx lines 712-713 and 492-493: exportKey('spki', myEcdhKeyPair.publicKey)
exchangePublicKey(pair) == exportedBytes(pair.publicKey)

\* Chat.tsx lines 715-741, keyExchangeService.initiate
initiateBody(u) ==
  [recipientId |-> metadata(u), publicKey |-> exchangePublicKey(generateKey(u)),
   signature |-> subtleSign(identityKeyPair(u).privateKey, exchangePublicKey(generateKey(u))),
   timestamp |-> metadata(u)]
\* Chat.tsx lines 495-521, keyExchangeService.respond
responseBody(u) ==
  [exchangeId |-> metadata(u), publicKey |-> exchangePublicKey(generateKey(u)),
   signature |-> subtleSign(identityKeyPair(u).privateKey, exchangePublicKey(generateKey(u))),
   timestamp |-> metadata(u)]
\* keyExchange.ts lines 423-444 and keyExchangeService.confirm: the hash of
\* `KEY-CONFIRMED-${myUserId}-${recipientId}-${Date.now()}`
confirmBody(u) == [exchangeId |-> metadata(u), confirmationHash |-> metadata(u)]
\* messageEncryption.ts lines 63-111, messageService.send
messageBody(u) ==
  [recipientId |-> metadata(u), ciphertext |-> subtleEncrypt(sessionKeyOf(u), plaintextOf(u)),
   iv |-> metadata(u), tag |-> subtleEncrypt(sessionKeyOf(u), plaintextOf(u)),
   timestamp |-> metadata(u), sequenceNumber |-> metadata(u), nonce |-> metadata(u)]
\* fileEncryption.ts lines 18-61, fileService.upload
fileBody(u) ==
  [recipientId |-> metadata(u), fileName |-> metadata(u), fileSize |-> metadata(u),
   mimeType |-> metadata(u), chunks |-> subtleEncrypt(sessionKeyOf(u), plaintextOf(u)),
   totalChunks |-> metadata(u)]

Routes == {"initiate", "response", "confirm", "send", "upload"}
requestBody(route, u) ==
  CASE route = "initiate" -> initiateBody(u)
    [] route = "response" -> responseBody(u)
    [] route = "confirm" -> confirmBody(u)
    [] route = "send" -> messageBody(u)
    [] route = "upload" -> fileBody(u)

\* api.post: the request of u leaves the client
post(route, u) ==
  /\ wire' = wire \cup {[route |-> route, from |-> u, body |-> requestBody(route, u)]}
  /\ UNCHANGED <<emitted, inFlight, trial, verdict>>

NextWire ==
  /\ \E route \in Routes, u \in Users : post(route, u)
  /\ UNCHANGED <<gateVars, kxVars, sequenceCounters, storageVars>>
SpecWire == Init /\ [][NextWire]_vars

\* ----- the message codec: messageEncryption.ts ------------------------------

\* a JavaScript string is a sequence of UTF-16 code units; the ones tried are
\* 'a', U+FEFF, a high and a low surrogate, and U+FFFD
CodeUnits == {97, 65279, 55296, 56320, 65533}
RECURSIVE StringsOfLength(_)
StringsOfLength(n) ==
  IF n = 0 THEN {<<>>}
  ELSE {Append(str, c) : str \in StringsOfLength(n - 1), c \in CodeUnits}
Strings == UNION {StringsOfLength(n) : n \in 0..MaxLen}

isHighSurrogate(c) == c >= 55296 /\ c <= 56319
isLowSurrogate(c) == c >= 56320 /\ c <= 57343

\* TextEncoder reads the string as scalar values: a surrogate pair is one
\* code point, a surrogate on its own becomes U+FFFD
RECURSIVE toScalarValues(_)
toScalarValues(str) ==
  IF str = <<>> THEN <<>>
  ELSE IF isHighSurrogate(str[1]) /\ Len(str) >= 2 /\ isLowSurrogate(str[2])
    THEN <<65536 + (str[1] - 55296) * 1024 + (str[2] - 56320)>>
           \o toScalarValues(Tail(Tail(str)))
  ELSE IF isHighSurrogate(str[1]) \/ isLowSurrogate(str[1])
    THEN <<65533>> \o toScalarValues(Tail(str))
  ELSE <<str[1]>> \o toScalarValues(Tail(str))

\* the UTF-8 bytes of one code point
utf8Bytes(cp) ==
  IF cp < 128 THEN <<cp>>
  ELSE IF cp < 2048 THEN <<192 + (cp \div 64), 128 + (cp % 64)>>
  ELSE IF cp < 65536
    THEN <<224 + (cp \div 4096), 128 + ((cp \div 64) % 64), 128 + (cp % 64)>>
  ELSE <<240 + (cp \div 262144), 128 + ((cp \div 4096) % 64),
         128 + ((cp \div 64) % 64), 128 + (cp % 64)>>

RECURSIVE encodeScalars(_)
encodeScalars(scalars) ==
  IF scalars = <<>> THEN <<>>
  ELSE utf8Bytes(scalars[1]) \o encodeScalars(Tail(scalars))

\* line 68-69: new TextEncoder().encode(message)
TextEncode(str) == encodeScalars(toScalarValues(str))

\* the code points of well-formed UTF-8 bytes
RECURSIVE decodeScalars(_)
decodeScalars(bytes) ==
  IF bytes = <<>> THEN <<>>
  ELSE IF bytes[1] < 128
    THEN <<bytes[1]>> \o decodeScalars(SubSeq(bytes, 2, Len(bytes)))
  ELSE IF bytes[1] < 224
    THEN <<(bytes[1] - 192) * 64 + (bytes[2] - 128)>>
           \o decodeScalars(SubSeq(bytes, 3, Len(bytes)))
  ELSE IF bytes[1] < 240
    THEN <<(bytes[1] - 224) * 4096 + (bytes[2] - 128) * 64 + (bytes[3] - 128)>>
           \o decodeScalars(SubSeq(bytes, 4, Len(bytes)))
  ELSE <<(bytes[1] - 240) * 262144 + (bytes[2] - 128) * 4096
           + (bytes[3] - 128) * 64 + (bytes[4] - 128)>>
         \o decodeScalars(SubSeq(bytes, 5, Len(bytes)))

\* the UTF-16 code units of code points
RECURSIVE toCodeUnits(_)
toCodeUnits(scalars) ==
  IF scalars = <<>> THEN <<>>
  ELSE IF scalars[1] >= 65536
    THEN <<55296 + ((scalars[1] - 65536) \div 1024),
           56320 + ((scalars[1] - 65536) % 1024)>> \o toCodeUnits(Tail(scalars))
  ELSE <<scalars[1]>> \o toCodeUnits(Tail(scalars))

\* lines 170-171: new TextDecoder().decode(decrypted); ignoreBOM is false by
\* default, so a byte order mark at the start is dropped
TextDecode(bytes) ==
  LET scalars == decodeScalars(bytes) IN
  toCodeUnits(IF scalars # <<>> /\ scalars[1] = 65279 THEN Tail(scalars) ELSE scalars)

\* btoa(String.fromCharCode(...bytes)) and Uint8Array.from(atob(text), ...)
btoa(bytes) == [base64 |-> bytes]
atob(text) == text.base64

\* AES-GCM: the ciphertext and the tag are bound to key, iv and data
aesGcmEncrypt(key, iv, data) ==
  [ciphertext |-> [key |-> key, iv |-> iv, data |-> data],
   tag |-> [key |-> key, iv |-> iv, data |-> data]]
\* decryption gives the data when the tag verifies under the key and iv
aesGcmDecrypt(key, iv, ciphertext, tag) ==
  IF tag = ciphertext /\ tag.key = key /\ tag.iv = iv
  THEN [ok |-> TRUE, data |-> ciphertext.data]
  ELSE [ok |-> FALSE, data |-> <<>>]

\* what a call gives its caller: a value, or an error thrown
Returned(value) == [ok |-> TRUE, value |-> value]
Thrown(error) == [ok |-> FALSE, value |-> error]

\* lines 63-111: the EncryptedMessage built for a message, with the random
\* iv and nonce, the clock and the next sequence number of this call
encryptedMessage(message, sessionKey, iv, nonce, timestamp, sequenceNumber) ==
  LET encrypted == aesGcmEncrypt(sessionKey, iv, TextEncode(message)) IN
  [ciphertext |-> btoa(encrypted.ciphertext), iv |-> btoa(iv),
   tag |-> btoa(encrypted.tag), timestamp |-> timestamp,
   sequenceNumber |-> sequenceNumber, nonce |-> nonce]

\* lines 120-185
decryptMessage(encrypted, sessionKey) ==
  IF encrypted.nonce = 0 \/ encrypted.timestamp = 0 \/ encrypted.sequenceNumber = 0
  THEN Thrown("Missing replay protection fields")
  ELSE LET decrypted == aesGcmDecrypt(sessionKey, atob(encrypted.iv),
                                      atob(encrypted.ciphertext), atob(encrypted.tag)) IN
       IF decrypted.ok THEN Returned(TextDecode(decrypted.data))
       ELSE Thrown("Failed to decrypt message")

\* a message, the key it is encrypted under, a key to decrypt with, and the
\* state of the sender's counter
InitAead ==
  /\ trial \in [kind : {"aead"}, message : Strings, sessionKey : 1..2,
                otherKey : 1..2, counter : 0..1]
  /\ verdict = NoTrial
  /\ InitGate /\ InitKeyExchange /\ InitCounters /\ InitStorage /\ InitCalls /\ InitWire

\* the message is encrypted, then decrypted under the same and the other key
roundTripMessage ==
  LET encrypted == encryptedMessage(trial.message, trial.sessionKey, 1, 1,
                                    now, trial.counter + 1) IN
  /\ trial.kind = "aead" /\ verdict = NoTrial
  /\ verdict' = [kind |-> "aead",
                 sameKey |-> decryptMessage(encrypted, trial.sessionKey),
                 otherKey |-> decryptMessage(encrypted, trial.otherKey)]
  /\ UNCHANGED <<trial, emitted, inFlight, wire>>
  /\ UNCHANGED <<gateVars, kxVars, sequenceCounters, storageVars>>

SpecAead == InitAead /\ [][roundTripMessage]_vars

\* ----- the file codec: fileEncryption.ts -----------------------------------

\* Math.ceil(a / b)
ceilDiv(a, b) == (a + b - 1) \div b

\* a file of the given size: its content, unit by unit
fileOfSize(size) == [i \in 1..size |-> i]

\* String.fromCharCode(...bytes) passes every byte as one argument; an engine
\* takes only so many arguments in a call and throws a RangeError above that.
\* The limit differs between engines and is below the 1,048,576 of a chunk.
SpreadLimits == 0..(CHUNK_SIZE - 1)
spreadFits(bytes, limit) == Len(bytes) <= limit

\* lines 26-53: chunk i of the file, sealed under its own iv
encryptChunk(fileBuffer, i, sessionKey) ==
  LET start == i * CHUNK_SIZE
      end == Min({start + CHUNK_SIZE, Len(fileBuffer)})
      chunk == SubSeq(fileBuffer, start + 1, end)
      encrypted == aesGcmEncrypt(sessionKey, i + 1, chunk) IN
  [chunkIndex |-> i, ciphertext |-> btoa(encrypted.ciphertext),
   iv |-> btoa(i + 1), tag |-> btoa(encrypted.tag)]

\* lines 18-61
encryptFile(fileBuffer, sessionKey, limit) ==
  LET totalChunks == ceilDiv(Len(fileBuffer), CHUNK_SIZE)
      chunks == [n \in 1..totalChunks |-> encryptChunk(fileBuffer, n - 1, sessionKey)] IN
  IF \E n \in 1..totalChunks : ~spreadFits(atob(chunks[n].ciphertext).data, limit)
  THEN Thrown("RangeError")
  ELSE Returned([fileSize |-> Len(fileBuffer), chunks |-> chunks,
                 totalChunks |-> totalChunks])

\* Array.prototype.sort by chunkIndex
RECURSIVE sortByChunkIndex(_)
sortByChunkIndex(chunks) ==
  IF chunks = <<>> THEN <<>>
  ELSE LET least == CHOOSE n \in 1..Len(chunks) :
                      \A m \in 1..Len(chunks) :
                        /\ chunks[n].chunkIndex <= chunks[m].chunkIndex
                        /\ chunks[n].chunkIndex = chunks[m].chunkIndex => n <= m
       IN <<chunks[least]>> \o
          sortByChunkIndex([m \in 1..(Len(chunks) - 1) |->
                              IF m < least THEN chunks[m] ELSE chunks[m + 1]])

RECURSIVE decryptChunks(_, _)
decryptChunks(chunks, sessionKey) ==
  IF chunks = <<>> THEN Returned(<<>>)
  ELSE LET decrypted == aesGcmDecrypt(sessionKey, atob(chunks[1].iv),
                                      atob(chunks[1].ciphertext), atob(chunks[1].tag))
           rest == decryptChunks(Tail(chunks), sessionKey) IN
       IF ~decrypted.ok THEN Thrown("OperationError")
       ELSE IF ~rest.ok THEN rest
       ELSE Returned(decrypted.data \o rest.value)

\* lines 63-101
decryptFile(encryptedFile, sessionKey) ==
  decryptChunks(sortByChunkIndex(encryptedFile.chunks), sessionKey)

\* a file size, a session key and the engine's argument limit
InitFile ==
  /\ trial \in [kind : {"file"}, fileSize : 0..MaxFileSize, sessionKey : 1..2,
                limit : SpreadLimits]
  /\ verdict = NoTrial
  /\ InitGate /\ InitKeyExchange /\ InitCounters /\ InitStorage /\ InitCalls /\ InitWire

\* the file is encrypted; its chunk list is handed to decryptFile in some order
roundTripFile ==
  LET encrypted == encryptFile(fileOfSize(trial.fileSize), trial.sessionKey, trial.limit) IN
  /\ trial.kind = "file" /\ verdict = NoTrial
  /\ IF encrypted.ok
     THEN \E order \in Permutations(1..encrypted.value.totalChunks) :
            verdict' = [kind |-> "file", encrypted |-> encrypted, order |-> order,
                        decrypted |-> decryptFile(
                          [encrypted.value EXCEPT !.chunks =
                             [n \in 1..Len(@) |-> @[order[n]]]], trial.sessionKey)]
     ELSE verdict' = [kind |-> "file", encrypted |-> encrypted, order |-> <<>>,
                      decrypted |-> encrypted]
  /\ UNCHANGED <<trial, emitted, inFlight, wire>>
  /\ UNCHANGED <<gateVars, kxVars, sequenceCounters, storageVars>>

SpecFile == InitFile /\ [][roundTripFile]_vars

\* ----- the private key store: keyStorage.ts ---------------------------------

Passwords == 1..NumPasswords
\* an identity key: its material, its algorithm, whether it may be exported
PrivateKey(material, algorithm, extractable) ==
  [material |-> material, algorithm |-> algorithm, extractable |-> extractable]
\* lines 35-60: the AES key PBKDF2 derives from a password and a salt
deriveKeyFromPassword(password, salt) == [password |-> password, salt |-> salt]
\* crypto.subtle.exportKey('pkcs8', privateKey): the bytes of the key
pkcs8(privateKey) == [pkcs8 |-> privateKey.material, algorithm |-> privateKey.algorithm]

\* return null
Null == [ok |-> FALSE, value |-> "null"]
\* store.get(userId) of an empty store
NoStoredKey == [present |-> FALSE]

\* lines 62-103: the StoredKey put into IndexedDB
storePrivateKey(privateKey, password, salt, iv) ==
  LET encrypted == aesGcmEncrypt(deriveKeyFromPassword(password, salt), iv,
                                 pkcs8(privateKey)) IN
  [present |-> TRUE, encryptedKey |-> btoa(<<iv, encrypted>>), salt |-> btoa(salt)]

\* lines 105-175: null for no entry, null when decryption or both imports
\* throw (the catch in line 171), null for a key in the old RSA-OAEP format
getPrivateKey(stored, password) ==
  IF ~stored.present THEN Null
  ELSE LET combined == atob(stored.encryptedKey)
           decrypted == aesGcmDecrypt(deriveKeyFromPassword(password, atob(stored.salt)),
                                      combined[1], combined[2].ciphertext,
                                      combined[2].tag) IN
       IF ~decrypted.ok THEN Null
       ELSE IF decrypted.data.algorithm = "RSA-PSS"
         THEN Returned(PrivateKey(decrypted.data.pkcs8, "RSA-PSS", FALSE))
       ELSE Null

\* a key, the password it is stored under, the password it is asked for
\* with, and whether it was stored at all
InitKeyStore ==
  /\ trial \in [kind : {"keystore"}, material : 1..MaxKeys,
                algorithm : {"RSA-PSS", "RSA-OAEP"}, password : Passwords,
                asked : Passwords, stored : BOOLEAN]
  /\ verdict = NoTrial
  /\ InitGate /\ InitKeyExchange /\ InitCounters /\ InitStorage /\ InitCalls /\ InitWire

\* the key is stored, or not, and then asked for
roundTripPrivateKey ==
  LET stored == IF trial.stored
                THEN storePrivateKey(PrivateKey(trial.material, trial.algorithm, TRUE),
                                     trial.password, 1, 1)
                ELSE NoStoredKey IN
  /\ trial.kind = "keystore" /\ verdict = NoTrial
  /\ verdict' = [kind |-> "keystore", loaded |-> getPrivateKey(stored, trial.asked),
                 absent |-> getPrivateKey(NoStoredKey, trial.asked)]
  /\ UNCHANGED <<trial, emitted, inFlight, wire>>
  /\ UNCHANGED <<gateVars, kxVars, sequenceCounters, storageVars>>

SpecKeyStore == InitKeyStore /\ [][roundTripPrivateKey]_vars

\* the clients encrypt for their conversations, with calls overlapping and
\* failing, and reload their pages
NextCounter ==
  /\ \/ \E u \in Peers : encryptMessageCall(u)
     \/ encryptMessageSettles
     \/ \E u \in Peers : reloadModule(u)
  /\ UNCHANGED <<gateVars, kxVars, storageVars>>
SpecCounter == Init /\ [][NextCounter]_vars

\* the running callback returns: its answer and its decision are delivered
Deliver ==
  /\ ~Quiet
  /\ lastResp' = NoResp
  /\ lastGate' = NoGate
  /\ UNCHANGED <<now, sweepDue, nonceCache, sequenceTracking, messages, handlers,
                 everAccepted, acceptedSeq>>
  /\ UNCHANGED <<kxVars, clientVars>>

StoreStep ==
  /\ Quiet
  /\ \E h \in Handlers : GateFind(h) \/ GateResume(h) \/ SaveFind(h) \/ SaveInsert(h)
  /\ UNCHANGED <<kxVars, clientVars>>

\* concurrent requests at one instant of the relay clock
Receive ==
  /\ Quiet
  /\ \E h \in Handlers :
       \E req \in FullRequests(now, GateOffsets) \cup GateDefective(now) :
          Presentable(req) /\ replayProtection(h, req)
  /\ UNCHANGED <<kxVars, clientVars>>

NextGate == Receive \/ StoreStep \/ Deliver
SpecGate == Init /\ [][NextGate]_vars

\* requests handled one after the other, over time and across a restart
ReceiveAlone ==
  /\ Quiet
  /\ \A g \in Handlers : handlers[g].pc = "idle"
  /\ \E req \in FullRequests(now, TsOffsets) \cup GateDefective(now)
                   \cup RouteDefective(now) :
        Presentable(req) /\ replayProtection(1, req)
  /\ UNCHANGED <<kxVars, clientVars>>

Clock ==
  /\ Quiet
  /\ Tick \/ Sweep \/ Restart
  /\ UNCHANGED <<kxVars, clientVars>>

NextRelay == ReceiveAlone \/ StoreStep \/ Deliver \/ Clock
SpecRelay == Init /\ [][NextRelay]_vars

\* a sender submits new messages and an eavesdropper re-submits stored ones
\* verbatim, over time and across a restart
SendNew ==
  /\ Quiet
  /\ \A g \in Handlers : handlers[g].pc = "idle"
  /\ \E req \in FullRequests(now, {-MAX_NONCE_AGE, FUTURE_SKEW}) :
        /\ req.nonce \notin everAccepted
        /\ Presentable(req)
        /\ replayProtection(1, req)
  /\ UNCHANGED <<kxVars, clientVars>>

Resubmit ==
  /\ Quiet
  /\ \A g \in Handlers : handlers[g].pc = "idle"
  /\ \E m \in messages :
        replayProtection(1,
          [senderId |-> m.senderId, recipientId |-> m.recipientId, nonce |-> m.nonce,
           timestamp |-> m.timestamp, sequenceNumber |-> m.sequenceNumber,
           complete |-> TRUE])
  /\ UNCHANGED <<kxVars, clientVars>>

NextReplay == SendNew \/ Resubmit \/ StoreStep \/ Deliver \/ Clock
SpecReplay == Init /\ [][NextReplay]_vars

\* one sender's requests, well-formed or not, handled one after the other
ReceiveFromA ==
  /\ Quiet
  /\ \A g \in Handlers : handlers[g].pc = "idle"
  /\ \E req \in FullRequests(now, GateOffsets) \cup GateDefective(now) :
        /\ req.senderId = "A"
        /\ Presentable(req)
        /\ replayProtection(1, req)
  /\ UNCHANGED <<kxVars, clientVars>>

\* one sender's well-formed requests stamped on and around both limits
ReceiveStamped ==
  /\ Quiet
  /\ \A g \in Handlers : handlers[g].pc = "idle"
  /\ \E req \in FullRequests(now, TsOffsets) :
        /\ req.senderId = "A"
        /\ Presentable(req)
        /\ replayProtection(1, req)
  /\ UNCHANGED <<kxVars, clientVars>>

NextWindow == ReceiveStamped \/ StoreStep \/ Deliver \/ Clock
SpecWindow == Init /\ [][NextWindow]_vars

\* one sender's well-formed requests arriving together at one instant; the
\* sender numbers its messages without gaps, copies of them arrive as well
ReceiveTogether ==
  /\ Quiet
  /\ \E h \in Handlers :
       \E req \in FullRequests(now, {FUTURE_SKEW}) :
          /\ req.senderId = "A"
          /\ req.sequenceNumber <= acceptedSeq[Conv(req)] + 1
          /\ Presentable(req)
          /\ replayProtection(h, req)
  /\ UNCHANGED <<kxVars, clientVars>>

NextRace == ReceiveTogether \/ StoreStep \/ Deliver
SpecRace == Init /\ [][NextRace]_vars

NextLayers == ReceiveFromA \/ StoreStep \/ Deliver \/ Clock
SpecLayers == Init /\ [][NextLayers]_vars

\* the handshake between A and B, with other users confirming and exchanges
\* expiring at any time
NextHandshake ==
  \/ \E u \in Peers : establishSession(u)
  \/ \E u \in Peers : getPending(u)
  \/ \E u \in Peers : getResponses(u)
  \/ \E u \in Peers : respond(u)
  \/ \E u \in Peers : initiate(u)
  \/ \E u \in Peers : recheck(u)
  \/ \E u \in Peers : confirm(u)
  \/ confirmRequest
  \/ expireExchange
SpecHandshake == Init /\ [][NextHandshake]_vars

\* the handshake with a party on the path that replaces public keys
NextMitm ==
  \/ NextHandshake
  \/ \E u \in Peers : initiateIntercepted(u)
  \/ \E u \in Peers : respondIntercepted(u)
SpecMitm == Init /\ [][NextMitm]_vars

\* the two clients alone, with INITIATE public keys replaced on the way to the relay
NextInitiateMitm ==
  \/ \E u \in Peers : establishSession(u)
  \/ \E u \in Peers : getPending(u)
  \/ \E u \in Peers : getResponses(u)
  \/ \E u \in Peers : respond(u)
  \/ \E u \in Peers : initiate(u)
  \/ \E u \in Peers : initiateIntercepted(u)
  \/ \E u \in Peers : recheck(u)
  \/ \E u \in Peers : confirm(u)
SpecInitiateMitm == Init /\ [][NextInitiateMitm]_vars

\* the two clients alone, their clocks apart
NextSkew ==
  \/ \E u \in Peers : establishSession(u)
  \/ \E u \in Peers : getPending(u)
  \/ \E u \in Peers : getResponses(u)
  \/ \E u \in Peers : respond(u)
  \/ \E u \in Peers : respondSkewed(u)
  \/ \E u \in Peers : initiate(u)
  \/ \E u \in Peers : initiateSkewed(u)
  \/ \E u \in Peers : recheck(u)
  \/ \E u \in Peers : confirm(u)
SpecSkew == Init /\ [][NextSkew]_vars

\* the two clients alone, losing stored ECDH key pairs
NextKeyLoss ==
  \/ \E u \in Peers : establishSession(u)
  \/ \E u \in Peers : getPending(u)
  \/ \E u \in Peers : getResponses(u)
  \/ \E u \in Peers : respond(u)
  \/ \E u \in Peers : initiate(u)
  \/ \E u \in Peers : recheck(u)
  \/ \E u \in Peers : confirm(u)
  \/ \E u \in Peers : forgetEcdhKeyPair(u)
SpecKeyLoss == Init /\ [][NextKeyLoss]_vars

\* the two clients, and users calling the relay's endpoints directly
NextEndpoints ==
  \/ \E u \in Peers : establishSession(u)
  \/ \E u \in Peers : getPending(u)
  \/ \E u \in Peers : getResponses(u)
  \/ \E u \in Peers : respond(u)
  \/ \E u \in Peers : initiate(u)
  \/ \E u \in Peers : recheck(u)
  \/ \E u \in Peers : confirm(u)
  \/ responseRequest
  \/ confirmRequest
SpecEndpoints == Init /\ [][NextEndpoints]_vars

\* one client's session key for one partner over time
NextSessionStore ==
  /\ (loadMessages \/ sendKeyLookup \/ reloadPage \/ clientTick)
  /\ UNCHANGED <<gateVars, kxVars, sequenceCounters, codecVars>>
SpecSessionStore == Init /\ [][NextSessionStore]_vars

\* one client's ECDH key pair for one exchange over time
NextPairStore ==
  /\ (storeNewKeyPair \/ completionLookup \/ pairTimeout \/ reloadPage \/ clientTick)
  /\ UNCHANGED <<gateVars, kxVars, sequenceCounters, codecVars>>
SpecPairStore == Init /\ [][NextPairStore]_vars

\* the two clients and the relay's exchange timers as time passes
NextExpiry ==
  \/ \E u \in Peers : establishSession(u)
  \/ \E u \in Peers : getPending(u)
  \/ \E u \in Peers : getResponses(u)
  \/ \E u \in Peers : respond(u)
  \/ \E u \in Peers : initiate(u)
  \/ \E u \in Peers : recheck(u)
  \/ \E u \in Peers : confirm(u)
  \/ exchangeTimeout
  \/ relayMinute
SpecExpiry == Init /\ [][NextExpiry]_vars

\* the two clients, with the initiate path in its two steps and pages closing
NextInitiateOrder ==
  \/ \E u \in Peers : establishSession(u)
  \/ \E u \in Peers : getPending(u)
  \/ \E u \in Peers : getResponses(u)
  \/ \E u \in Peers : respond(u)
  \/ \E u \in Peers : initiateSubmit(u)
  \/ \E u \in Peers : initiateStore(u)
  \/ \E u \in Peers : recheck(u)
  \/ \E u \in Peers : confirm(u)
  \/ \E u \in Peers : closePage(u)
SpecInitiateOrder == Init /\ [][NextInitiateOrder]_vars

\* A and B alone; A opens the exchanges and B answers them, either may lose
\* what it keeps in memory
NextStaleResponses ==
  \/ \E u \in Peers : establishSession(u)
  \/ \E u \in Peers : getPending(u)
  \/ \E u \in Peers : getResponses(u)
  \/ respond("B")
  \/ initiate("A")
  \/ \E u \in Peers : recheck(u)
  \/ \E u \in Peers : confirm(u)
  \/ forgetEcdhKeyPair("A")
  \/ forgetSessionKey("B")
SpecStaleResponses == Init /\ [][NextStaleResponses]_vars

\* the two clients, exchanges timing out, and responses posted by a third user
NextThirdParty ==
  \/ \E u \in Peers : establishSession(u)
  \/ \E u \in Peers : getPending(u)
  \/ \E u \in Peers : getResponses(u)
  \/ \E u \in Peers : respond(u)
  \/ \E u \in Peers : initiate(u)
  \/ \E u \in Peers : recheck(u)
  \/ \E u \in Peers : confirm(u)
  \/ expireExchange
  \/ \E caller \in Users \ Peers : postResponse(caller)
SpecThirdParty == Init /\ [][NextThirdParty]_vars

\* A and B after a completed handshake: A initiated exchange 1, B responded,
\* both confirmed
Established ==
  LET sessionKey == deriveSessionKey(deriveBits(exportKey(2), 1), exportKey(2), "A", "B") IN
  /\ pendingExchanges = [e \in ExchangeIds |-> NoExchange]
  /\ removed = [e \in ExchangeIds |->
        IF e = 1
        THEN [by |-> "confirm", fromUserId |-> "A", toUserId |-> "B",
              confirmedBy |-> {"A", "B"}, responded |-> TRUE, createdAt |-> StartTime]
        ELSE NotRemoved]
  /\ nextExchange = 2
  /\ nextKey = 3
  /\ sessionKeys = [p \in Peers \X Peers |->
        IF p = <<"A", "B">>
        THEN [key |-> sessionKey, exchangeId |-> 1, verified |-> FALSE,
              timestamp |-> StartTime, derivedAt |-> StartTime]
        ELSE IF p = <<"B", "A">>
        THEN [key |-> sessionKey, exchangeId |-> 1, verified |-> TRUE,
              timestamp |-> StartTime, derivedAt |-> StartTime]
        ELSE NoSession]
  /\ ecdhKeyPairs = [u \in Peers |-> [e \in ExchangeIds |-> NoPrivateKey]]
  /\ client = [u \in Peers |-> IdleClient]

InitEstablished == InitGate /\ Established /\ InitCounters /\ InitStorage /\ InitCodec

\* both peers send over an established session, one request at a time
Send == \E u \in Peers : handleSendMessage(u)
NextSend == Send \/ StoreStep \/ Deliver \/ Clock
SpecSend == InitEstablished /\ [][NextSend]_vars

\* ----- claims about the replay gate -----------------------------------------

\* C1 (as stated): the gate passes a request on exactly when all three fields
\* are present, the timestamp lies in [now - 5 min, now + 1 min], the nonce
\* was never accepted before and the sequence number is greater than the last
\* one accepted for the conversation.
C1_GateSoundness ==
  lastGate.decided =>
    (lastGate.pass <=> /\ lastGate.fields /\ lastGate.inWindow
                       /\ ~lastGate.nonceSeen /\ lastGate.seqAbove)

\* C6 (as stated): the sequence numbers the gate accepts for one conversation
\* are strictly increasing in acceptance order, under any interleaving.
C6_AcceptedSequencesIncrease ==
  (lastGate.decided /\ lastGate.pass) => lastGate.seqAbove

\* C7 (as stated): of two concurrent requests carrying the same nonce at
\* most one passes the gate: a request does not pass when another request
\* with its nonce passed while it was suspended.
C7_OnePassPerNonce ==
  ~(lastGate.decided /\ lastGate.pass /\ lastGate.overlap)

\* C8 (as stated): every verbatim re-submission of an accepted record is
\* answered with the 400 duplicate-nonce error.
C8_ReplayAlwaysDuplicateNonce ==
  lastResp.replay => (lastResp.status = 400 /\ lastResp.error = "duplicate_nonce")

\* C8 (amended): a verbatim re-submission of an accepted record is never
\* accepted again; it gets the 400 duplicate-nonce error when it arrives
\* while its nonce is still cached and its timestamp is still inside the
\* freshness window, and the 400 message-too-old error once its timestamp is
\* more than 5 minutes old.
C8_ReplayRejected ==
  lastResp.replay =>
    /\ lastResp.status # 201
    /\ lastResp.tooOld =>
         (lastResp.status = 400 /\ lastResp.error = "message_too_old")
    /\ (lastResp.cached /\ ~lastResp.tooOld) =>
         (lastResp.status = 400 /\ lastResp.error = "duplicate_nonce")

C8_Witness ==
  /\ lastResp.replay /\ lastResp.tooOld
  /\ lastResp.status = 400 /\ lastResp.error = "message_too_old"

\* C9 (as stated): once a message with sequence number n is stored for a
\* conversation, a later request of that conversation with a fresh nonce, a
\* fresh timestamp and a sequence number <= n gets 400 invalid-sequence-number.
C9_RewindRejected ==
  lastResp.rewind => (lastResp.status = 400 /\ lastResp.error = "invalid_sequence")

\* ----- claims about the handshake -------------------------------------------

\* C2 (as stated): no session key is ever stored that was derived from a
\* handshake message whose signature the peer had not verified before it
\* computed the shared secret.
C2_VerifiedBeforeDerive ==
  \A p \in Peers \X Peers : sessionKeys[p] # NoSession => sessionKeys[p].verified

\* C3: when A and B both hold a session key derived in one and the same
\* exchange, the two keys are equal, whoever initiated; the key is the ECDH
\* shared secret bound to the sorted pair of user ids.
C3_SessionSymmetry ==
  \A u \in Peers :
    LET mine == sessionKeys[<<u, Other(u)>>]
        theirs == sessionKeys[<<Other(u), u>>]
    IN (mine # NoSession /\ theirs # NoSession /\ mine.exchangeId = theirs.exchangeId)
         => /\ mine.key = theirs.key
            /\ mine.key.info = sortedIds(u, Other(u))

C3_Witness ==
  /\ sessionKeys[<<"A", "B">>] # NoSession
  /\ sessionKeys[<<"B", "A">>] # NoSession
  /\ sessionKeys[<<"A", "B">>].exchangeId = sessionKeys[<<"B", "A">>].exchangeId
  /\ sessionKeys[<<"A", "B">>].key = sessionKeys[<<"B", "A">>].key

initiatedBy(u) ==
  { e \in ExchangeIds : pendingExchanges[e].fromUserId = u \/ removed[e].fromUserId = u }
respondedExchanges ==
  { e \in ExchangeIds :
      pendingExchanges[e].responsePublicKey # NoPublicKey \/ removed[e].responded }

\* C4 (as stated): when A and B have each initiated an exchange towards the
\* other and both hold a session key, exactly one exchange was responded to
\* and the two session keys are equal.
C4_SimultaneousOpenConverges ==
  ( /\ initiatedBy("A") # {} /\ initiatedBy("B") # {}
    /\ sessionKeys[<<"A", "B">>] # NoSession
    /\ sessionKeys[<<"B", "A">>] # NoSession )
  => /\ sessionKeys[<<"A", "B">>].key = sessionKeys[<<"B", "A">>].key
     /\ Cardinality(respondedExchanges) = 1

\* C10 (as stated): an exchange deleted by POST /confirm had been confirmed
\* by both its initiator and its responder.
C10_DeletedOnlyWhenBothConfirmed ==
  \A e \in ExchangeIds :
    removed[e].by = "confirm" =>
      /\ removed[e].fromUserId \in removed[e].confirmedBy
      /\ removed[e].toUserId \in removed[e].confirmedBy

\* ----- claims about the send path --------------------------------------------

\* C5 (as stated): over an established session every message a peer builds
\* with encryptMessage and posts in the order built, one at a time, is
\* answered 201.
C5_BuiltMessagesAccepted ==
  lastResp.status # 0 => lastResp.status = 201

\* ----- further claims about the replay gate ------------------------------------

\* C11 (as stated): the sweep evicts a cache entry only when its accepted-at
\* time is more than 5 minutes old.
C11_SweepEvictsByAcceptedAt ==
  [][Sweep =>
       \A n \in Nonces :
         (nonceCache[n] # NoEntry /\ nonceCache'[n] = NoEntry)
           => now - nonceCache[n].acceptedAt > MAX_NONCE_AGE]_vars

\* the gate turned the request away at layer `outcome`: its 400, its audit
\* event and nothing else
rejectedAt(outcome) ==
  /\ ~lastGate.pass
  /\ lastResp.status = 400
  /\ lastResp.error = outcome
  /\ lastGate.audit = {auditEvent(outcome)}

C13_TimestampWindowExact ==
  (lastGate.decided /\ lastGate.fields) =>
    /\ rejectedAt("message_from_future") <=> lastGate.timeDiff < -FUTURE_SKEW
    /\ rejectedAt("message_too_old") <=> lastGate.timeDiff > MAX_NONCE_AGE

\* requests stamped exactly on the two limits have passed the gate
C13_Witness ==
  /\ lastGate.decided /\ lastGate.pass
  /\ lastGate.timeDiff = MAX_NONCE_AGE
  /\ \E m \in messages : m.timestamp = now + FUTURE_SKEW

\* the save of a handler that passed the gate has just been answered
saveAnswered == lastResp # NoResp /\ ~lastGate.decided

\* C14: when two handlers pass the gate with the same nonce at most one message
\* with that nonce is persisted, and the handler whose insert hits the unique
\* nonce index is answered 400 duplicate-nonce, not the generic storage error.
C14_UniqueNonceAnswers400 ==
  /\ \A m1 \in messages : \A m2 \in messages : m1.nonce = m2.nonce => m1 = m2
  /\ (saveAnswered /\ lastResp.stored /\ ~lastResp.stale)
       => lastResp.status = 400 /\ lastResp.error = "duplicate_nonce"

\* two handlers passed the gate with one nonce while both were in flight; the
\* second insert met the stored nonce
C14_Witness ==
  /\ saveAnswered /\ lastResp.overlap
  /\ lastResp.stored /\ ~lastResp.stale
  /\ lastResp.status = 400
\* C15 (as stated): every message inserted into the store carries a sequence
\* number above all those already stored for its conversation, whatever the
\* interleaving of the handlers.
C15_StoredSequencesIncrease ==
  [][\A m \in messages' \ messages :
        m.sequenceNumber > findLastSequence(m.senderId, m.recipientId)]_vars
\* ----- further claims about the handshake ---------------------------------------

\* exchanges whose INITIATE public key is not the one the initiator signed
tamperedInitiates ==
  { e \in ExchangeIds :
      /\ pendingExchanges[e].present
      /\ pendingExchanges[e].publicKey # pendingExchanges[e].signature.publicKey }

\* C16: when the public key of an INITIATE was replaced in transit and the
\* original signature forwarded, the responder's verification fails: the
\* responder stores no session key for that exchange, derives none from the
\* replaced key, and sends no CONFIRM for the exchange.
C16_TamperedInitiateAborts ==
  /\ \A e \in tamperedInitiates :
       LET u == pendingExchanges[e].toUserId IN
       /\ u \notin pendingExchanges[e].confirmedBy
       /\ sessionKeys[<<u, Other(u)>>].exchangeId # e
       /\ ~(client[u].pc = "confirm" /\ client[u].exchangeId = e)
  /\ \A p \in Peers \X Peers :
       sessionKeys[p].verified => AttackerKey \notin sessionKeys[p].key.secret

\* the responder has answered a tampered INITIATE and given up
C16_Witness ==
  \E e \in tamperedInitiates :
    LET u == pendingExchanges[e].toUserId IN
    /\ pendingExchanges[e].respondedBy = u
    /\ client[u].pc = "idle"
    /\ sessionKeys[<<u, Other(u)>>] = NoSession
\* C17 (as stated): a handshake message, INITIATE or RESPOND, whose public key
\* as received is not the one that was signed is never used to derive a
\* session key.
C17_SubstitutedKeyNeverDerived ==
  \A p \in Peers \X Peers : AttackerKey \notin sessionKeys[p].key.secret
\* C18 (as stated): no session key is derived from a handshake message whose
\* timestamp differs from the deriving peer's clock by more than 5 minutes.
C18_StaleHandshakeRejected ==
  \A p \in Peers \X Peers :
    sessionKeys[p] # NoSession =>
      /\ sessionKeys[p].derivedAt - sessionKeys[p].timestamp <= MAX_NONCE_AGE
      /\ sessionKeys[p].timestamp - sessionKeys[p].derivedAt <= MAX_NONCE_AGE
\* exchange e, opened by u, has been answered and confirmed by the other peer,
\* who holds the key derived in it
answeredFor(u, e) ==
  /\ pendingExchanges[e].present
  /\ pendingExchanges[e].fromUserId = u
  /\ pendingExchanges[e].respondedBy = Other(u)
  /\ Other(u) \in pendingExchanges[e].confirmedBy
  /\ sessionKeys[<<Other(u), u>>].exchangeId = e

\* C19: when A has initiated, B has responded, derived its key and confirmed,
\* and A then runs the resolution again, A completes its own exchange: it
\* derives the key B holds and goes on to confirm; its CONFIRM makes the
\* relay delete the exchange, and both peers hold the session key.
C19_HappyPathCompletes ==
  [][\A u \in Peers : \A e \in ExchangeIds :
       /\ ( /\ answeredFor(u, e)
            /\ client[u].pc = "getResponses"
            /\ client[u].pendingId = NoExchangeId
            /\ e = Min(responsesFor(u, Other(u)))
            /\ client'[u] # client[u] )
          => /\ client'[u].pc = "confirm"
             /\ client'[u].exchangeId = e
             /\ sessionKeys'[<<u, Other(u)>>].exchangeId = e
             /\ sessionKeys'[<<u, Other(u)>>].key = sessionKeys[<<Other(u), u>>].key
       /\ ( /\ answeredFor(u, e)
            /\ client[u].pc = "confirm"
            /\ client[u].exchangeId = e
            /\ client'[u] # client[u] )
          => /\ ~pendingExchanges'[e].present
             /\ removed'[e].by = "confirm"
             /\ sessionKeys'[<<u, Other(u)>>].key = sessionKeys'[<<Other(u), u>>].key
             /\ sessionKeys'[<<u, Other(u)>>] # NoSession
             /\ client'[u].pc = "idle"]_vars

\* A opened exchange 1, B answered it, both confirmed, the relay deleted it
\* and both hold the same key
C19_Witness ==
  /\ removed[1].by = "confirm"
  /\ removed[1].fromUserId = "A"
  /\ removed[1].confirmedBy = {"A", "B"}
  /\ sessionKeys[<<"A", "B">>].exchangeId = 1
  /\ sessionKeys[<<"B", "A">>].exchangeId = 1
  /\ ~sessionKeys[<<"A", "B">>].verified
  /\ sessionKeys[<<"A", "B">>].key = sessionKeys[<<"B", "A">>].key
  /\ client["A"].pc = "idle" /\ client["B"].pc = "idle"
\* C20 (as stated): when the initiator finds a stored response to its exchange
\* but has no ECDH key pair for it, the attempt ends there without a key: the
\* client returns to idle and opens no new exchange within the same attempt.
C20_ExchangeLostEndsAttempt ==
  [][\A u \in Peers :
       ( /\ client[u].pc = "getResponses"
         /\ client[u].pendingId = NoExchangeId
         /\ responsesFor(u, Other(u)) # {}
         /\ ecdhKeyPairs[u][Min(responsesFor(u, Other(u)))] = NoPrivateKey
         /\ client'[u] # client[u] )
       => /\ client'[u].pc = "idle"
          /\ sessionKeys'[<<u, Other(u)>>] = NoSession]_vars
\* ----- claims about the relay's exchange endpoints ---------------------------------

\* C21 (as stated): GET /pending/{peerId} lists only exchanges in which the
\* caller is the responder, peerId the initiator and no response is stored;
\* GET /responses/{peerId} lists only exchanges in which the caller is the
\* initiator and the responder has stored a response.
C21_ListsOnlyOwnExchanges ==
  \A caller \in Users : \A peerId \in Users :
    /\ \A e \in pendingForMe(caller, peerId) :
         /\ pendingExchanges[e].toUserId = caller
         /\ pendingExchanges[e].fromUserId = peerId
         /\ pendingExchanges[e].respondedBy = NoId
    /\ \A e \in responsesFor(caller, peerId) :
         /\ pendingExchanges[e].fromUserId = caller
         /\ pendingExchanges[e].respondedBy = pendingExchanges[e].toUserId
\* ----- claims about the client's key stores ----------------------------------------

\* C22 (as stated): the session key a lookup hands out, from memory or from
\* the persistent store, was never made more than 60 minutes earlier.
C22_SessionKeyAtMostOneHourOld ==
  obtained.kind = "session" => obtained.at - obtained.born <= ONE_HOUR
C24_ExchangeGoneAfterFiveMinutes ==
  \A e \in ExchangeIds :
    /\ pendingExchanges[e].present => now - pendingExchanges[e].createdAt <= EXCHANGE_EXPIRY
    /\ \A u \in Peers :
         (e \in pendingForMe(u, Other(u)) \cup responsesFor(u, Other(u)))
           => now - pendingExchanges[e].createdAt <= EXCHANGE_EXPIRY

\* an answered exchange timed out; its initiator, asking the relay more than
\* five minutes after creating it, found nothing and starts over
C24_Witness ==
  \E e \in ExchangeIds :
    /\ removed[e].by = "expired" /\ removed[e].responded
    /\ now - removed[e].createdAt > EXCHANGE_EXPIRY
    /\ client[removed[e].fromUserId].pc = "initiate"
\* C25 (as stated): the sequence numbers one peer's encryptMessage takes for
\* one conversation id are, in call order, strictly increasing and start at 1.
C25_SequenceNumbersIncrease ==
  \A p \in Peers \X Peers :
    /\ emitted[p] # <<>> => emitted[p][1] = 1
    /\ \A i \in 1..(Len(emitted[p]) - 1) : emitted[p][i] < emitted[p][i + 1]
C27_AeadRoundTrip ==
  verdict.kind = "aead" =>
    /\ verdict.sameKey = Returned(trial.message)
    /\ trial.otherKey # trial.sessionKey => ~verdict.otherKey.ok
\* C28 (as stated): encryptFile gives exactly ceil(size / 1 MiB) chunks whose
\* indices are 0..totalChunks-1, each once, and decryptFile gives the file's
\* bytes back whatever the order of the chunk list.
C28_FileChunksRoundTrip ==
  verdict.kind = "file" =>
    /\ verdict.encrypted.ok
    /\ LET chunks == verdict.encrypted.value.chunks IN
         /\ Len(chunks) = ceilDiv(trial.fileSize, CHUNK_SIZE)
         /\ \A i \in 0..(Len(chunks) - 1) :
              Cardinality({n \in 1..Len(chunks) : chunks[n].chunkIndex = i}) = 1
    /\ verdict.decrypted = Returned(fileOfSize(trial.fileSize))
\* C29 (as stated): an RSA-PSS private key stored under a password is given
\* back, the same key, when asked for with that password; asked for with any
\* other password the answer is not a key and differs from the answer for a
\* key that was never stored.
C29_PrivateKeyRoundTrip ==
  verdict.kind = "keystore" /\ trial.stored /\ trial.algorithm = "RSA-PSS" =>
    /\ trial.asked = trial.password =>
         /\ verdict.loaded.ok
         /\ verdict.loaded.value.material = trial.material
         /\ verdict.loaded.value.algorithm = trial.algorithm
    /\ trial.asked # trial.password =>
         /\ ~verdict.loaded.ok
         /\ verdict.loaded # verdict.absent
\* keyExchange.js lines 37, 96 and 231: the kinds of event the relay has
\* written to its security log for the exchanges made so far; the failure
\* events of lines 47, 69, 83, 119 and 251 are key_exchange_* events as well
securityLog ==
  {"key_exchange_initiated" : e \in {x \in ExchangeIds : x < nextExchange}}
    \cup {"key_exchange_response" : e \in {x \in ExchangeIds :
              pendingExchanges[x].respondedBy # NoId \/ removed[x].responded}}
    \cup {"key_exchange_confirmed" : e \in {x \in ExchangeIds :
              pendingExchanges[x].confirmedBy # {} \/ removed[x].confirmedBy # {}}}

\* Chat.tsx lines 516-546: exchanges the recipient answered and whose INITIATE
\* signature then failed crypto.subtle.verify
failedVerifications ==
  { e \in ExchangeIds :
      /\ pendingExchanges[e].present
      /\ pendingExchanges[e].respondedBy = pendingExchanges[e].toUserId
      /\ ~verify(pendingExchanges[e].fromUserId, pendingExchanges[e].signature,
                 "initiate", pendingExchanges[e].fromUserId,
                 pendingExchanges[e].toUserId, pendingExchanges[e].publicKey,
                 pendingExchanges[e].timestamp) }

\* C30 (as stated): when the verification of a handshake signature has failed,
\* the security log holds an invalid_signature event.
C30_InvalidSignatureLogged ==
  failedVerifications # {} => "invalid_signature" \in securityLog
\* ----- claims about the order of the handshake's steps -----------------------

\* C31 (as stated): the resolution goes by fixed priority: with a session key
\* for the peer the relay is not contacted; otherwise an incoming INITIATE
\* without response that the peer found is answered; otherwise a stored
\* response to an exchange of its own is completed; a new INITIATE is submitted
\* only when none of these applies, and never in an attempt that found an
\* incoming INITIATE.
C31_ResolutionPriority ==
  [][\A u \in Peers :
       /\ client[u].pc = "idle" /\ client'[u].pc = "getPending"
            => sessionKeys[<<u, Other(u)>>] = NoSession
       /\ client[u].pc = "getResponses" /\ client'[u].pc # "getResponses"
            => IF client[u].pendingId # NoExchangeId
               THEN client'[u].pc = "respond"
               ELSE IF responsesFor(u, Other(u)) # {}
               THEN /\ client'[u].pc = "confirm"
                    /\ client'[u].exchangeId \in responsesFor(u, Other(u))
               ELSE client'[u].pc = "initiate"
       /\ client[u].pc = "initiate" /\ client'[u].pc # "initiate"
            => client[u].pendingId = NoExchangeId]_vars
\* C32 (as stated): the responder sends RESPOND only after the initiator's
\* signature on the INITIATE has verified: the relay stores no response of the
\* recipient to an INITIATE whose signature does not verify.
C32_RespondOnlyAfterVerify ==
  \A e \in ExchangeIds :
    pendingExchanges[e].present
      /\ pendingExchanges[e].respondedBy = pendingExchanges[e].toUserId
    => verify(pendingExchanges[e].fromUserId, pendingExchanges[e].signature,
              "initiate", pendingExchanges[e].fromUserId,
              pendingExchanges[e].toUserId, pendingExchanges[e].publicKey,
              pendingExchanges[e].timestamp)
\* C33 (as stated): whenever the relay holds an exchange whose initiator has
\* not completed it, the initiator holds the ECDH key pair of that exchange:
\* stored under the exchange id, or still at hand in the running call.
C33_InitiatorHoldsExchangePair ==
  \A e \in ExchangeIds :
    LET u == pendingExchanges[e].fromUserId IN
    pendingExchanges[e].present /\ sessionKeys[<<u, Other(u)>>].exchangeId # e
    => \/ ecdhKeyPairs[u][e] # NoPrivateKey
       \/ client[u].pc = "initiated" /\ client[u].exchangeId = e
\* ----- frame conditions of the relay's routes ---------------------------------

C34_ExpiredNotFound ==
  /\ verdict.kind = "response"
  /\ verdict.status = 404
  /\ removed[verdict.exchangeId].by = "expired"
\* C35: a POST /messages/send that does not end in 201 leaves the nonce cache
\* and the sequence tracker as they were before the request. Stated for a
\* request the relay answers in the step it arrives in, with no other request
\* in flight, so that the state before the step is the state before the request.
C35_FailedSendLeavesGateState ==
  [][(/\ \A h \in Handlers : handlers[h].pc = "idle"
      /\ \A h \in Handlers : handlers'[h].pc = "idle"
      /\ lastResp'.status \notin {0, 201})
       => nonceCache' = nonceCache /\ sequenceTracking' = sequenceTracking]_vars

\* the part of C35 about requests a gate layer turns away at arrival
C35_GateRejectLeavesGateState ==
  [][(/\ \A h \in Handlers : handlers[h].pc = "idle"
      /\ \A h \in Handlers : handlers'[h].pc = "idle"
      /\ lastResp'.status \notin {0, 201}
      /\ ~lastGate'.pass)
       => nonceCache' = nonceCache /\ sequenceTracking' = sequenceTracking]_vars
\* C36: for each conversation with a sequence-tracker entry the tracked value
\* is at least the highest sequence number of a persisted message of that
\* conversation, and a tracker entry never decreases, under any interleaving
\* of concurrent sends.
C36_TrackerCoversStore ==
  \A k \in Peers \X Peers :
     sequenceTracking[k] # Undefined => sequenceTracking[k] >= findLastSequence(k[1], k[2])

\* the second half of C36: an entry of the tracker never decreases
C36_TrackerNeverDecreases ==
  [][\A k \in Peers \X Peers :
       sequenceTracking[k] # Undefined /\ sequenceTracking'[k] # Undefined
         => sequenceTracking'[k] >= sequenceTracking[k]]_vars

\* C36 as a whole
C36_TrackerMonotoneAndCovering ==
  []C36_TrackerCoversStore /\ C36_TrackerNeverDecreases
\* C37: whenever POST /confirm reports bothConfirmed for an exchange, the
\* initiator and the responder of that exchange each hold a session key for
\* the other, and the two keys are equal.
C37_BothConfirmedMeansSharedKey ==
  [][\A e \in ExchangeIds :
       removed[e].by # "confirm" /\ removed'[e].by = "confirm"
         => LET from == removed'[e].fromUserId
                to == removed'[e].toUserId IN
            /\ sessionKeys'[<<from, to>>] # NoSession
            /\ sessionKeys'[<<to, from>>] # NoSession
            /\ sessionKeys'[<<from, to>>].key = sessionKeys'[<<to, from>>].key]_vars

\* the part of C37 about holding a key at all
C37_BothConfirmedMeansBothHoldKey ==
  [][\A e \in ExchangeIds :
       removed[e].by # "confirm" /\ removed'[e].by = "confirm"
         => /\ sessionKeys'[<<removed'[e].fromUserId, removed'[e].toUserId>>] # NoSession
            /\ sessionKeys'[<<removed'[e].toUserId, removed'[e].fromUserId>>] # NoSession]_vars
\* C38: when the relay lists to the initiator a response for an exchange whose
\* ECDH key pair the initiator still holds, the resolution (with no exchange
\* pending for the initiator to answer) derives the session key from such an
\* exchange and does not go on to a new INITIATE, whatever other responded
\* exchanges between the two users are listed with it.
C38_HeldExchangeIsCompleted ==
  [][\A u \in Peers :
       LET held == { e \in responsesFor(u, Other(u)) : ecdhKeyPairs[u][e] # NoPrivateKey } IN
       ( /\ client[u].pc = "getResponses"
         /\ client'[u].pc # "getResponses"
         /\ client[u].pendingId = NoExchangeId
         /\ held # {} )
       => /\ client'[u].pc = "confirm"
          /\ client'[u].exchangeId \in held
          /\ sessionKeys'[<<u, Other(u)>>].exchangeId = client'[u].exchangeId]_vars

\* the relay lists two answered exchanges to the initiator, who holds the key
\* pair of the later one only
C38_TwoListedOneHeld ==
  \E u \in Peers :
    /\ client[u].pc = "getResponses"
    /\ client[u].pendingId = NoExchangeId
    /\ Cardinality(responsesFor(u, Other(u))) = 2
    /\ ecdhKeyPairs[u][Min(responsesFor(u, Other(u)))] = NoPrivateKey
    /\ \E e \in responsesFor(u, Other(u)) : ecdhKeyPairs[u][e] # NoPrivateKey
====
